---- MODULE Spec2Model ----
(***************************************************************************)
(* A model of the TAPO-P110 backend: the poll loop of main.py, the         *)
(* credential retry generator of src/core/auth_handler.py, the table       *)
(* creation of src/core/config_manager.py and the inserts of               *)
(* src/services/data_service.py.                                           *)
(*                                                                         *)
(* Six specifications share the module's variables:                        *)
(*   Spec        the poll loop (startup, one cycle after another)          *)
(*   SpecAuth    the generator AuthHandler.get_credentials_with_retry      *)
(*   SpecStore   the datastore: create_type_tables_from_schema, inserts    *)
(*               and edits of schema_config.yaml between calls             *)
(*   SpecModbus  get_modbus_device_data and the save of its reading        *)
(*   SpecTapo    get_tapo_device_data and the save of its reading          *)
(*   SpecDirect  the datastore under direct calls of every public          *)
(*               function of DataService and DeviceTableManager, the       *)
(*               coroutines among them as tasks that interleave at their   *)
(*               awaits, their statements executed by the threads of       *)
(*               their connections                                         *)
(***************************************************************************)
EXTENDS Integers, Sequences, FiniteSets, TLC

VARIABLES
    \* ---- main.py ----
    pc,               \* position of the main coroutine
    device_config,    \* data_service.device_config['devices'], in file order
    devices_by_type,  \* main.py:30-35, an ordered dict: <<[type, names]>>
    ti, di,           \* positions of the two for loops of collect_all_data
    saved_devices,    \* main.py:43, a dict: device type -> bool
    data,             \* the reading the current device's read returned
    inflight,         \* per device: reads started and not yet ended
    rows,             \* rows committed to the reading tables: [device_name, cycle]
    printed,          \* devices reported "data saved" by the current cycle
    sleep_secs,       \* argument of the last asyncio.sleep
    cycle,            \* iterations of `while True` begun
    \* history of the poll loop (what the environment did, what was issued)
    reads,            \* per device: reads issued so far
    lastRead,         \* per device: how its latest read ended
    lastSave,         \* per device: how the insert after its latest read ended
    authFaults,       \* per device: consecutive reads ended by an authentication fault
    committed,        \* every row an insert has committed so far
    \* ---- auth_handler.py ----
    env,              \* os.environ: [email, password], "" when unset or empty
    gen,              \* the generator: "created", "suspended", "finished"
    attempt,          \* the loop variable of get_credentials_with_retry
    results,          \* what each next() on the generator gave the caller
    prompts,          \* input()/getpass() calls made so far, in order
    \* ---- config_manager.py / data_service.py ----
    schema_config,    \* the parsed schema_config.yaml, in file order
    db,               \* the datastore: <<file, table>> -> [columns, rows]
    last_op,          \* the latest store operation and how it ended
    ensure_streak,    \* create_type_tables_from_schema calls in a row
    ensured,          \* the tables were created from the schema as it is now
    db_config,        \* DataService.db_config (data_service.py:13)
    saving,           \* per coroutine of data_service.py:90-111: its call in progress
    running,          \* the function that holds the event loop's thread between
                      \* two of its statements
    \* ---- data_service.py: a device read (get_modbus_device_data or
    \* ---- get_tapo_device_data) and the save after it ----
    mpc,              \* "read": a read is due; "save": its reading is to be saved
    mdevice,          \* device_name, the argument of the read
    connected,        \* how sock.connect ended in the latest Modbus read
    answers,          \* what the device answered in the latest read
    requests,         \* the register requests the latest read sent, in order
    reading,          \* the dict the latest read returned
    mreads            \* reads so far

pollVars  == <<pc, device_config, devices_by_type, ti, di, saved_devices, data,
               inflight, rows, printed, sleep_secs, cycle, reads, lastRead,
               lastSave, authFaults, committed>>
authVars  == <<env, gen, attempt, results, prompts>>
storeVars == <<schema_config, db, last_op, ensure_streak, ensured, db_config,
               saving, running>>
modbusVars == <<mpc, mdevice, connected, answers, requests, reading, mreads>>
vars      == <<pollVars, authVars, storeVars, modbusVars>>

(***************************************************************************)
(* Bounds of the model.                                                    *)
(***************************************************************************)
MaxCycles == 4
MaxNextCalls == 5
MaxRows == 2
MaxStreak == 2
MaxReads == 1

(***************************************************************************)
(* Program constants.                                                      *)
(***************************************************************************)
SleepSeconds == 5
max_attempts == 3

NoValue == "None"

(***************************************************************************)
(* Python dicts: a function whose domain is the set of keys.               *)
(***************************************************************************)
EmptyDict == [k \in {} |-> NoValue]
SetItem(dict, key, value) ==
    [k \in (DOMAIN dict) \cup {key} |-> IF k = key THEN value ELSE dict[k]]
\* dict.get(key, default).
GetOr(field, key, default) == IF key \in DOMAIN field THEN field[key] ELSE default
\* db_config=None (main.py:25), written as the dict without keys: the two are
\* alike false in `if db_config` (data_service.py:16) and alike raise in
\* db_config['database'] (data_service.py:99, 217).
NoDbConfig == EmptyDict
\* The coroutines that write the datastore from tasks of the event loop
\* (data_service.py:90, 106).
SaveTasks == {"save_all_devices", "save_device_reading"}
\* A call of one of them: the db_config of the object it was called on, the
\* readings it has yet to save, where it is, the row its INSERT has written
\* and not committed, and the exception its INSERT has raised. aiosqlite hands
\* each statement to the thread of the connection and suspends the coroutine
\* until the event loop resumes it with the outcome. The call is at
\*   "execute"    from the await of the connection (data_service.py:99) until
\*                the thread has executed the INSERT (data_service.py:100),
\*   "commit"     from then until the thread has executed the COMMIT
\*                (data_service.py:104); `handed` tells whether the coroutine
\*                has been resumed after the INSERT and has handed the COMMIT
\*                over,
\*   "raised"     the INSERT has failed, the coroutine is not resumed yet,
\*   "committed"  the COMMIT is executed, the coroutine is not resumed yet,
\*   "idle"       no call is in progress.
NoCall == [db_config |-> NoDbConfig, pending |-> << >>, at |-> "idle",
           handed |-> FALSE, row |-> EmptyDict, error |-> ""]
NoCalls == [t \in SaveTasks |-> NoCall]
\* No function is between two of its statements on the event loop's thread:
\* the event loop, or the code that calls the functions, has the thread.
NoRun == [op |-> "none", db_path |-> NoValue, todo |-> {}, created |-> {}]

(***************************************************************************)
(*                          main.py: the poll loop                         *)
(***************************************************************************)

\* device_config.yaml as the model draws it: devices in file order, each with
\* its type and whether it has an `ip`.
Plug(n)      == [name |-> n, type |-> "SmartPlug", ip |-> TRUE]
Meter(n)     == [name |-> n, type |-> "schneider", ip |-> TRUE]
DeviceConfigs ==
    { << Plug("plug1"), Plug("plug2") >>,
      << Plug("plug1"), Meter("meter1") >>,
      << Meter("meter1"), Plug("plug1") >>,
      << Meter("meter1"), Meter("meter2") >>,
      << [name |-> "plug0", type |-> "SmartPlug", ip |-> FALSE],
         [name |-> "psu1", type |-> "PowerSupply", ip |-> TRUE],
         [name |-> "meter0", type |-> "schneider", ip |-> FALSE] >> }

DeviceNames(cfg) == {cfg[i].name : i \in 1..Len(cfg)}
DeviceInfo(cfg, n) == cfg[CHOOSE i \in 1..Len(cfg) : cfg[i].name = n]

\* main.py:30-35: devices grouped by type, types in order of first appearance,
\* names in file order.
RECURSIVE GroupByType(_, _)
GroupByType(cfg, acc) ==
    IF cfg = << >> THEN acc
    ELSE LET dev == Head(cfg)
             at  == {i \in 1..Len(acc) : acc[i].type = dev.type}
         IN  IF at = {}
             THEN GroupByType(Tail(cfg),
                      Append(acc, [type |-> dev.type, names |-> <<dev.name>>]))
             ELSE GroupByType(Tail(cfg),
                      [acc EXCEPT ![CHOOSE i \in at : TRUE].names = Append(@, dev.name)])

\* The devices collect_all_data issues a read for: a SmartPlug with an ip
\* (main.py:53-58) and every schneider (main.py:67-71).
Pollable(dev) ==
    \/ dev.type = "SmartPlug" /\ dev.ip
    \/ dev.type = "schneider"

\* A loop whose try block catches only the timeout of wait_for.
InnerCatches_TimeoutOnly(exc) == exc = "TimeoutError"

\* main.py:75-78: the except clauses inside the device loop.
InnerCatches(exc) == exc \in {"TimeoutError", "Exception"}
\* main.py:92: the except clause around collect_all_data and the report.
OuterCatches(exc) == exc \in {"TimeoutError", "Exception"}
\* A loop in which only the timeout is handled and every other exception
\* leaves main_loop.
AfterFault_Propagates(exc) ==
    IF exc = "TimeoutError" THEN "for_device" ELSE "exit"

\* Where the coroutine continues after `exc` is raised in the body of the
\* device loop: the next device, the sleep, or out of main_loop.
AfterFault(exc) ==
    IF InnerCatches(exc) THEN "for_device"
    ELSE IF OuterCatches(exc) THEN "sleep"
    ELSE "exit"

CurType  == devices_by_type[ti].type
CurNames == devices_by_type[ti].names
CurDev   == CurNames[di]
NextDev  == DeviceInfo(device_config, CurNames[di + 1])

\* What a read of a Tapo plug can end with, besides the timeout of wait_for:
\* a reading, a rejected login, any other exception.
TapoOutcomes == {"ok", "auth_fault", "error"}
\* What get_modbus_device_data can end with: every field read, some fields
\* failed, the connect refused or timed out (data_service.py:182-183), no ip
\* (data_service.py:139-140), or an exception before the try block.  The
\* conversions int(port) and int(slave_id) (data_service.py:126-127) run before
\* the ip test, so a device without ip can raise as well.
ModbusOutcomes(dev) ==
    IF dev.ip THEN {"ok", "partial", "connect_error", "connect_timeout", "raise"}
    ELSE {"no_ip", "raise"}

Row(d, c) == [device_name |-> d, cycle |-> c]

\* main.py:13-35: the tables are created and the devices grouped; a malformed
\* schema or device file raises and ends the process.
Startup ==
    /\ pc = "startup"
    /\ \E config_ok \in BOOLEAN :
         IF config_ok
         THEN /\ devices_by_type' = GroupByType(device_config, << >>)
              /\ pc' = "for_type"
              /\ cycle' = 1
         ELSE /\ pc' = "exit"
              /\ UNCHANGED <<devices_by_type, cycle>>
    /\ UNCHANGED <<device_config, ti, di, saved_devices, data, inflight, rows,
                   printed, sleep_secs, reads, lastRead, lastSave, authFaults,
                   committed>>
    /\ UNCHANGED <<authVars, storeVars, modbusVars>>

\* main.py:46-47: the next device type; its flag starts False.
NextType ==
    /\ pc = "for_type"
    /\ ti < Len(devices_by_type)
    /\ ti' = ti + 1
    /\ di' = 0
    /\ saved_devices' = SetItem(saved_devices, devices_by_type[ti + 1].type, FALSE)
    /\ pc' = "for_device"
    /\ UNCHANGED <<device_config, devices_by_type, data, inflight, rows, printed,
                   sleep_secs, cycle, reads, lastRead, lastSave, authFaults,
                   committed>>
    /\ UNCHANGED <<authVars, storeVars, modbusVars>>

\* main.py:49: the devices of the current type are exhausted.
EndType ==
    /\ pc = "for_device"
    /\ di = Len(CurNames)
    /\ pc' = "for_type"
    /\ UNCHANGED <<device_config, devices_by_type, ti, di, saved_devices, data,
                   inflight, rows, printed, sleep_secs, cycle, reads, lastRead,
                   lastSave, authFaults, committed>>
    /\ UNCHANGED <<authVars, storeVars, modbusVars>>

\* main.py:53-63: the read of a SmartPlug starts, under wait_for.
SmartPlugRead ==
    /\ pc = "for_device"
    /\ di < Len(CurNames)
    /\ CurType = "SmartPlug"
    /\ NextDev.ip
    /\ di' = di + 1
    /\ pc' = "reading"
    /\ inflight' = [inflight EXCEPT ![NextDev.name] = @ + 1]
    /\ reads' = [reads EXCEPT ![NextDev.name] = @ + 1]
    /\ lastSave' = [lastSave EXCEPT ![NextDev.name] = "none"]
    /\ UNCHANGED <<device_config, devices_by_type, ti, saved_devices, data, rows,
                   printed, sleep_secs, cycle, lastRead, authFaults, committed>>
    /\ UNCHANGED <<authVars, storeVars, modbusVars>>

\* main.py:67-71: the read of a schneider device starts, in the executor.
SchneiderRead ==
    /\ pc = "for_device"
    /\ di < Len(CurNames)
    /\ CurType = "schneider"
    /\ di' = di + 1
    /\ pc' = "reading"
    /\ inflight' = [inflight EXCEPT ![NextDev.name] = @ + 1]
    /\ reads' = [reads EXCEPT ![NextDev.name] = @ + 1]
    /\ lastSave' = [lastSave EXCEPT ![NextDev.name] = "none"]
    /\ UNCHANGED <<device_config, devices_by_type, ti, saved_devices, data, rows,
                   printed, sleep_secs, cycle, lastRead, authFaults, committed>>
    /\ UNCHANGED <<authVars, storeVars, modbusVars>>

\* main.py:57-58 (`continue` for a SmartPlug without ip) and the device types
\* neither branch of main.py:53/67 handles.
SkipDevice ==
    /\ pc = "for_device"
    /\ di < Len(CurNames)
    /\ \/ CurType = "SmartPlug" /\ ~NextDev.ip
       \/ CurType \notin {"SmartPlug", "schneider"}
    /\ di' = di + 1
    /\ UNCHANGED <<pc, device_config, devices_by_type, ti, saved_devices, data,
                   inflight, rows, printed, sleep_secs, cycle, reads, lastRead,
                   lastSave, authFaults, committed>>
    /\ UNCHANGED <<authVars, storeVars, modbusVars>>

\* data_service.py:41-71 under main.py:60-63: the read ends before the timeout.
TapoReturns ==
    /\ pc = "reading"
    /\ CurType = "SmartPlug"
    /\ \E outcome \in TapoOutcomes :
         /\ lastRead' = [lastRead EXCEPT ![CurDev] = outcome]
         /\ authFaults' = [authFaults EXCEPT ![CurDev] =
                              IF outcome = "auth_fault" THEN @ + 1 ELSE 0]
         /\ IF outcome = "ok"
            THEN pc' = "saving" /\ data' = "reading"
            ELSE pc' = AfterFault("Exception") /\ data' = data
    /\ inflight' = [inflight EXCEPT ![CurDev] = @ - 1]
    /\ UNCHANGED <<device_config, devices_by_type, ti, di, saved_devices, rows,
                   printed, sleep_secs, cycle, reads, lastSave, committed>>
    /\ UNCHANGED <<authVars, storeVars, modbusVars>>

\* A timeout that raises TimeoutError without waiting for the cancelled read
\* to end.
TapoTimeout_NoAwaitCancel ==
    /\ pc = "reading"
    /\ CurType = "SmartPlug"
    /\ lastRead' = [lastRead EXCEPT ![CurDev] = "timeout"]
    /\ authFaults' = [authFaults EXCEPT ![CurDev] = 0]
    /\ pc' = AfterFault("TimeoutError")
    /\ UNCHANGED <<device_config, devices_by_type, ti, di, saved_devices, data,
                   inflight, rows, printed, sleep_secs, cycle, reads, lastSave,
                   committed>>
    /\ UNCHANGED <<authVars, storeVars, modbusVars>>

\* main.py:60-63, 75-76: two seconds pass; wait_for cancels the read, waits for
\* the cancellation and raises TimeoutError.
TapoTimeout ==
    /\ pc = "reading"
    /\ CurType = "SmartPlug"
    /\ inflight' = [inflight EXCEPT ![CurDev] = @ - 1]
    /\ lastRead' = [lastRead EXCEPT ![CurDev] = "timeout"]
    /\ authFaults' = [authFaults EXCEPT ![CurDev] = 0]
    /\ pc' = AfterFault("TimeoutError")
    /\ UNCHANGED <<device_config, devices_by_type, ti, di, saved_devices, data,
                   rows, printed, sleep_secs, cycle, reads, lastSave, committed>>
    /\ UNCHANGED <<authVars, storeVars, modbusVars>>

\* data_service.py:117-186 under main.py:69-71: get_modbus_device_data ends. It
\* returns a dict whenever it reaches its try block, also when the connect
\* failed or timed out.
ModbusReturns ==
    /\ pc = "reading"
    /\ CurType = "schneider"
    /\ \E outcome \in ModbusOutcomes(DeviceInfo(device_config, CurDev)) :
         /\ lastRead' = [lastRead EXCEPT ![CurDev] = outcome]
         /\ IF outcome = "raise"
            THEN pc' = AfterFault("Exception") /\ data' = data
            ELSE pc' = "saving" /\ data' = outcome
    /\ inflight' = [inflight EXCEPT ![CurDev] = @ - 1]
    /\ UNCHANGED <<device_config, devices_by_type, ti, di, saved_devices, rows,
                   printed, sleep_secs, cycle, reads, lastSave, authFaults,
                   committed>>
    /\ UNCHANGED <<authVars, storeVars, modbusVars>>

\* main.py:64-65 with data_service.py:73-88: one insert, committed or raised.
SaveTapo ==
    /\ pc = "saving"
    /\ CurType = "SmartPlug"
    /\ \E outcome \in {"ok", "fail"} :
         /\ lastSave' = [lastSave EXCEPT ![CurDev] = outcome]
         /\ IF outcome = "ok"
            THEN /\ rows' = rows \cup {Row(CurDev, cycle)}
                 /\ committed' = committed \cup {Row(CurDev, cycle)}
                 /\ saved_devices' = SetItem(saved_devices, CurType, TRUE)
                 /\ pc' = "for_device"
            ELSE /\ pc' = AfterFault("Exception")
                 /\ UNCHANGED <<rows, committed, saved_devices>>
    /\ data' = NoValue
    /\ UNCHANGED <<device_config, devices_by_type, ti, di, inflight, printed,
                   sleep_secs, cycle, reads, lastRead, authFaults>>
    /\ UNCHANGED <<authVars, storeVars, modbusVars>>

\* main.py:72-73 with data_service.py:294-345: the insert; when it fails, the
\* table is created if missing and the insert tried once more, and a second
\* failure is raised.
SaveSchneider ==
    /\ pc = "saving"
    /\ CurType = "schneider"
    /\ \E outcome \in {"ok", "retry_ok", "fail"} :
         /\ lastSave' = [lastSave EXCEPT ![CurDev] = outcome]
         /\ IF outcome \in {"ok", "retry_ok"}
            THEN /\ rows' = rows \cup {Row(CurDev, cycle)}
                 /\ committed' = committed \cup {Row(CurDev, cycle)}
                 /\ saved_devices' = SetItem(saved_devices, CurType, TRUE)
                 /\ pc' = "for_device"
            ELSE /\ pc' = AfterFault("Exception")
                 /\ UNCHANGED <<rows, committed, saved_devices>>
    /\ data' = NoValue
    /\ UNCHANGED <<device_config, devices_by_type, ti, di, inflight, printed,
                   sleep_secs, cycle, reads, lastRead, authFaults>>
    /\ UNCHANGED <<authVars, storeVars, modbusVars>>

\* main.py:80-91: collect_all_data returns; for every type whose flag is set,
\* "data saved" is printed for every device of the type.
Report ==
    /\ pc = "for_type"
    /\ ti = Len(devices_by_type)
    /\ printed' = UNION { {devices_by_type[i].names[j] :
                              j \in 1..Len(devices_by_type[i].names)} :
                          i \in {k \in 1..Len(devices_by_type) :
                                    saved_devices[devices_by_type[k].type]} }
    /\ pc' = "sleep"
    /\ UNCHANGED <<device_config, devices_by_type, ti, di, saved_devices, data,
                   inflight, rows, sleep_secs, cycle, reads, lastRead, lastSave,
                   authFaults, committed>>
    /\ UNCHANGED <<authVars, storeVars, modbusVars>>

\* A sleep that backs off after a cycle in which a read failed.
SleepInterval_Backoff ==
    IF \E n \in DOMAIN lastRead :
          lastRead[n] \in {"error", "timeout", "auth_fault", "raise"}
    THEN 2 * SleepSeconds
    ELSE SleepSeconds

\* main.py:96: the argument of asyncio.sleep.
SleepInterval == SleepSeconds

\* main.py:96, 40-43: the sleep, then the next iteration of `while True`.
Sleep ==
    /\ pc = "sleep"
    /\ cycle < MaxCycles
    /\ sleep_secs' = SleepInterval
    /\ cycle' = cycle + 1
    /\ ti' = 0
    /\ di' = 0
    /\ saved_devices' = EmptyDict
    /\ printed' = {}
    /\ pc' = "for_type"
    /\ UNCHANGED <<device_config, devices_by_type, data, inflight, rows, reads,
                   lastRead, lastSave, authFaults, committed>>
    /\ UNCHANGED <<authVars, storeVars, modbusVars>>

PollIdle ==
    /\ pc = "off"
    /\ device_config \in {<< >>, << Plug("plug1"), Meter("meter1") >>,
                          << Meter("meter1"),
                             [name |-> "meter0", type |-> "schneider",
                              ip |-> FALSE] >>,
                          << Plug("plug1"), Plug("plug2") >>}
    /\ devices_by_type = << >>
    /\ ti = 0 /\ di = 0
    /\ saved_devices = EmptyDict
    /\ data = NoValue
    /\ inflight = EmptyDict /\ reads = EmptyDict
    /\ lastRead = EmptyDict /\ lastSave = EmptyDict /\ authFaults = EmptyDict
    /\ rows = {} /\ committed = {} /\ printed = {}
    /\ sleep_secs = 0
    /\ cycle = 0

AuthIdle ==
    /\ env = [email |-> "", password |-> ""]
    /\ gen = "off"
    /\ attempt = 0
    /\ results = << >>
    /\ prompts = << >>

StoreIdle ==
    /\ schema_config = << >>
    /\ db = EmptyDict
    /\ last_op = [op |-> "none", error |-> "", created |-> {}]
    /\ ensure_streak = 0
    /\ ensured = FALSE
    /\ db_config = NoDbConfig
    /\ saving = NoCalls
    /\ running = NoRun

ModbusIdle ==
    /\ mpc = "off"
    /\ mdevice = NoValue
    /\ connected = NoValue
    /\ answers = EmptyDict
    /\ requests = << >>
    /\ reading = EmptyDict
    /\ mreads = 0

Init ==
    /\ pc = "startup"
    /\ device_config \in DeviceConfigs
    /\ devices_by_type = << >>
    /\ ti = 0 /\ di = 0
    /\ saved_devices = EmptyDict
    /\ data = NoValue
    /\ inflight = [n \in DeviceNames(device_config) |-> 0]
    /\ reads = [n \in DeviceNames(device_config) |-> 0]
    /\ lastRead = [n \in DeviceNames(device_config) |-> "none"]
    /\ lastSave = [n \in DeviceNames(device_config) |-> "none"]
    /\ authFaults = [n \in DeviceNames(device_config) |-> 0]
    /\ rows = {} /\ committed = {} /\ printed = {}
    /\ sleep_secs = 0
    /\ cycle = 0
    /\ AuthIdle
    /\ StoreIdle
    /\ ModbusIdle

Next ==
    \/ Startup
    \/ NextType
    \/ EndType
    \/ SmartPlugRead
    \/ SchneiderRead
    \/ SkipDevice
    \/ TapoReturns
    \/ TapoTimeout
    \/ ModbusReturns
    \/ SaveTapo
    \/ SaveSchneider
    \/ Report
    \/ Sleep

Spec == Init /\ [][Next]_vars

(***************************************************************************)
(*                     Properties of the poll loop                         *)
(***************************************************************************)
PollableNames ==
    {n \in DeviceNames(device_config) : Pollable(DeviceInfo(device_config, n))}
InLoop == pc \notin {"off", "startup", "exit"}
\* How a read ends when it yields no reading: the faults of a read.
ReadFaults == {"error", "timeout", "auth_fault", "raise"}
TransientFaults == {"error", "timeout", "raise"}
SavedOutcomes == {"ok", "retry_ok"}

\* C1: when a cycle reaches its sleep, every pollable device has been read in
\* that cycle whatever happened to the devices before it, the row of every
\* device whose insert succeeded in the cycle is in the table, and every row
\* ever committed is still there.
C1_FailureIsolation ==
    /\ committed \subseteq rows
    /\ pc = "sleep" =>
         \A b \in PollableNames :
            /\ reads[b] = cycle
            /\ lastSave[b] \in SavedOutcomes => Row(b, cycle) \in rows

\* C1's case: the first device's read timed out (or its insert failed), and the
\* second device's row of the same cycle, and of the cycle before, is stored.
C1_Witness ==
    /\ pc = "sleep"
    /\ cycle >= 2
    /\ \E a, b \in PollableNames :
          /\ a # b
          /\ device_config[1].name = a
          /\ lastRead[a] = "timeout" \/ lastSave[a] = "fail"
          /\ Row(b, cycle) \in rows
          /\ Row(b, cycle - 1) \in rows

\* C2: whatever faults occurred, the devices polled are those of the device
\* file, every pollable device is read exactly once in every cycle (so a device
\* that failed in cycle N is read in cycle N+1), and every sleep lasts
\* SleepSeconds.
C2_RetriedNextCycle ==
    InLoop =>
      /\ devices_by_type = GroupByType(device_config, << >>)
      /\ sleep_secs = (IF cycle = 1 THEN 0 ELSE SleepSeconds)
      /\ \A d \in PollableNames :
            /\ reads[d] \in {cycle - 1, cycle}
            /\ pc = "sleep" => reads[d] = cycle
            /\ inflight[d] > 0 => reads[d] = cycle

\* C2's case: a device whose read of the previous cycle ended in a transient
\* fault has its next read in flight, after a sleep of five seconds.
C2_Witness ==
    /\ pc = "reading"
    /\ cycle >= 2
    /\ sleep_secs = 5
    /\ inflight[CurDev] = 1
    /\ lastRead[CurDev] \in TransientFaults
    /\ reads[CurDev] = cycle

\* C3 (as the spec states it): once max_attempts consecutive reads of a device
\* have ended in an authentication fault, no read is issued for it any more.
C3_DisabledAfterExhaustion ==
    \A d \in DOMAIN authFaults :
        authFaults[d] >= max_attempts => inflight[d] = 0

\* C5 (as the spec states it): a device whose read of the current cycle
\* exceeded its timeout has no row of that cycle.
C5_TimeoutLeavesNoRow ==
    \A d \in DOMAIN lastRead :
        (/\ reads[d] = cycle
         /\ inflight[d] = 0
         /\ lastRead[d] \in {"timeout", "connect_timeout"})
        => Row(d, cycle) \notin rows

\* The read of device b starts in this step.
StartReadOf(b) ==
    /\ SmartPlugRead \/ SchneiderRead
    /\ inflight'[b] = inflight[b] + 1

\* C6 (as the spec states it): while the read of a device is in flight, the
\* read of every other device not yet read in the cycle can start.
C6_ReadsStartConcurrently ==
    \A a, b \in PollableNames :
        (a # b /\ inflight[a] > 0 /\ reads[b] < cycle) => ENABLED StartReadOf(b)

\* C7: no device ever has two reads in flight, and the sleep starts only when
\* no read is in flight and no reading waits to be saved.
C7_NoOverlappingReads ==
    \A d \in DOMAIN inflight :
        /\ inflight[d] <= 1
        /\ pc = "sleep" => inflight[d] = 0 /\ data = NoValue
        /\ pc = "reading" /\ d # CurDev => inflight[d] = 0

\* C7's case: a device whose read was cancelled by the timeout in the previous
\* cycle has its next read in flight.
C7_Witness ==
    /\ pc = "reading"
    /\ cycle >= 2
    /\ lastRead[CurDev] = "timeout"
    /\ inflight[CurDev] = 1

\* C8: the process ends only at startup; once in the loop, whatever fault a
\* read or an insert raised, the loop can take its next step (up to the last
\* cycle the model runs).
C8_FaultsNeverEndTheLoop ==
    /\ pc = "exit" => cycle = 0
    /\ (InLoop /\ ~(pc = "sleep" /\ cycle = MaxCycles)) => ENABLED Next

\* C8's case: a device's insert failed in the previous cycle and a read of the
\* next cycle is in flight.
C8_Witness ==
    /\ pc = "reading"
    /\ cycle >= 2
    /\ \E d \in DOMAIN lastSave : reads[d] = cycle - 1 /\ lastSave[d] = "fail"
    /\ \E d \in DOMAIN lastRead : lastRead[d] \in ReadFaults

(***************************************************************************)
(*        src/core/auth_handler.py: the credential retry generator         *)
(***************************************************************************)

\* What the environment holds and what the user types at a prompt.
EnvEmails     == {"", "env_user"}
EnvPasswords  == {"", "env_pw"}
TypedEmails   == {"u1", "u2"}
TypedPasswords == {"p1", "p2"}

\* auth_handler.py:9-12: each field from the environment when it is set and not
\* empty, else from a prompt.
get_credentials(e, typed_email, typed_password) ==
    [email         |-> IF e.email # "" THEN e.email ELSE typed_email,
     password      |-> IF e.password # "" THEN e.password ELSE typed_password,
     email_from    |-> IF e.email # "" THEN "env" ELSE "prompt",
     password_from |-> IF e.password # "" THEN "env" ELSE "prompt"]

\* The prompts a pair cost: one per field that was typed.
PromptsOf(pair, k) ==
    (IF pair.email_from = "prompt"
        THEN << [attempt |-> k, field |-> "email"] >> ELSE << >>)
    \o (IF pair.password_from = "prompt"
        THEN << [attempt |-> k, field |-> "password"] >> ELSE << >>)

\* A loop that runs once more than max_attempts.
InRange_OffByOne(k) == k <= max_attempts

\* auth_handler.py:19: `for attempt in range(max_attempts)`.
InRange(k) == k < max_attempts

Yielded(pair) == [kind |-> "pair"] @@ pair
Raised(exc)   == [kind |-> exc, email |-> NoValue, password |-> NoValue,
                  email_from |-> NoValue, password_from |-> NoValue]

\* auth_handler.py:17-21, 28: the first next(): attempt 0 takes the pair from
\* get_credentials and yields it.
NextOnCreated ==
    /\ gen = "created"
    /\ Len(results) < MaxNextCalls
    /\ \E te \in TypedEmails, tp \in TypedPasswords :
         LET pair == get_credentials(env, te, tp)
         IN  IF InRange(0)
             THEN /\ attempt' = 0
                  /\ results' = Append(results, Yielded(pair))
                  /\ prompts' = prompts \o PromptsOf(pair, 0)
                  /\ gen' = "suspended"
             ELSE /\ results' = Append(results, Raised("AuthenticationError"))
                  /\ gen' = "finished"
                  /\ UNCHANGED <<attempt, prompts>>
    /\ UNCHANGED env
    /\ UNCHANGED <<pollVars, storeVars, modbusVars>>

\* auth_handler.py:19, 22-28, 31: a next() on the suspended generator: the next
\* attempt prompts for both fields and yields them; after the last attempt the
\* loop ends and AuthenticationError is raised.
NextOnSuspended ==
    /\ gen = "suspended"
    /\ Len(results) < MaxNextCalls
    /\ IF InRange(attempt + 1)
       THEN \E te \in TypedEmails, tp \in TypedPasswords :
              LET pair == [email |-> te, password |-> tp,
                           email_from |-> "prompt", password_from |-> "prompt"]
              IN  /\ attempt' = attempt + 1
                  /\ results' = Append(results, Yielded(pair))
                  /\ prompts' = prompts \o PromptsOf(pair, attempt + 1)
                  /\ gen' = "suspended"
       ELSE /\ results' = Append(results, Raised("AuthenticationError"))
            /\ gen' = "finished"
            /\ UNCHANGED <<attempt, prompts>>
    /\ UNCHANGED env
    /\ UNCHANGED <<pollVars, storeVars, modbusVars>>

\* A generator that has raised is finished: every later next() raises
\* StopIteration and runs none of its code.
NextOnFinished ==
    /\ gen = "finished"
    /\ Len(results) < MaxNextCalls
    /\ results' = Append(results, Raised("StopIteration"))
    /\ UNCHANGED <<env, gen, attempt, prompts>>
    /\ UNCHANGED <<pollVars, storeVars, modbusVars>>

InitAuth ==
    /\ env \in [email : EnvEmails, password : EnvPasswords]
    /\ gen = "created"
    /\ attempt = 0
    /\ results = << >>
    /\ prompts = << >>
    /\ PollIdle /\ device_config = << >>
    /\ StoreIdle
    /\ ModbusIdle

NextAuth ==
    \/ NextOnCreated
    \/ NextOnSuspended
    \/ NextOnFinished

SpecAuth == InitAuth /\ [][NextAuth]_vars

\* C4: the generator yields a pair on each of the first max_attempts requests
\* and on no other; the request after them raises AuthenticationError; the
\* first pair takes each field from the environment when it is set there and
\* from a prompt otherwise, the later pairs are typed at a prompt; and no
\* prompt belongs to an attempt after the third.
C4_BoundedCredentialRetry ==
    gen # "off" =>
      /\ \A i \in DOMAIN results :
            /\ results[i].kind = "pair" <=> i <= max_attempts
            /\ i = max_attempts + 1 => results[i].kind = "AuthenticationError"
            /\ i = 1 =>
                 /\ results[i].email_from = (IF env.email # "" THEN "env" ELSE "prompt")
                 /\ results[i].password_from =
                        (IF env.password # "" THEN "env" ELSE "prompt")
                 /\ env.email # "" => results[i].email = env.email
                 /\ env.password # "" => results[i].password = env.password
            /\ i \in 2..max_attempts =>
                 /\ results[i].email_from = "prompt"
                 /\ results[i].password_from = "prompt"
      /\ \A j \in DOMAIN prompts : prompts[j].attempt < max_attempts
      /\ Len(prompts) <= 2 * max_attempts

\* C4's case: three pairs were handed out, the first from the environment, and
\* a fourth and a fifth request were made.
C4_Witness ==
    /\ Len(results) = max_attempts + 2
    /\ results[1].email_from = "env"
    /\ results[max_attempts].kind = "pair"
    /\ results[max_attempts + 1].kind = "AuthenticationError"
    /\ Len(prompts) = 2 * (max_attempts - 1) + 1

(***************************************************************************)
(*   src/core/config_manager.py, src/services/data_service.py: the store   *)
(***************************************************************************)

\* dict.get(key): None when the key is absent.
Get(dict, key) == IF key \in DOMAIN dict THEN dict[key] ELSE NoValue
\* A key a YAML mapping does not have (col['type'] raises KeyError on it).
Absent == "<absent>"

Col(n, t) == [name |-> n, type |-> t]
IdCol == Col("id", "INTEGER PRIMARY KEY AUTOINCREMENT")
Names(cols) == [i \in 1..Len(cols) |-> cols[i].name]
SeqToSet(seq) == {seq[i] : i \in 1..Len(seq)}
HasDuplicates(seq) == \E i, j \in 1..Len(seq) : i # j /\ seq[i] = seq[j]
Min(a, b) == IF a < b THEN a ELSE b

\* schema_config.yaml as the model draws it. Every file has the devices_db
\* entry main.py:13 needs, a SmartPlug entry and a schneider entry; the
\* variants differ in the columns the two device types declare.
Entry(k, f, t, cols) == [key |-> k, file |-> f, table |-> t, schema |-> cols]
DevicesDbEntry ==
    Entry("devices_db", "devices.db", "devices",
          << Col("name", "TEXT"), Col("type", "TEXT") >>)
\* A devices_db entry that declares one more column of the registry.
DevicesDbEntryWide ==
    Entry("devices_db", "devices.db", "devices",
          << Col("name", "TEXT"), Col("type", "TEXT"), Col("location", "TEXT") >>)
\* An entry that is a list of columns and no mapping, the shape
\* save_device_reading reads (data_service.py:94-95): there is no file and no
\* table in it, and .get on it raises AttributeError.
ListEntry(k, cols) ==
    [key |-> k, file |-> NoValue, table |-> NoValue, schema |-> cols, list |-> TRUE]
IsList(e) == "list" \in DOMAIN e
ValueColumns == << Col("timestamp", "TEXT"), Col("value", "REAL") >>

ColumnVariants ==
    { << Col("timestamp", "TEXT") >>,
      << Col("timestamp", "TEXT"), Col("current_power", "REAL") >>,
      << Col("device_name", "TEXT"), Col("timestamp", "TEXT"),
         Col("current_power", "REAL") >>,
      << Col("timestamp", "TEXT"), Col("current_power", Absent) >> }
SchemaConfigs ==
    { << DevicesDbEntry,
         Entry("SmartPlug", "tapo_data.db", "tapo_device_metrics", cols),
         Entry("schneider", "schneider_data.db", "schneider_device_metrics", cols) >>
      : cols \in ColumnVariants }
    \cup
    { << DevicesDbEntry,
         Entry("SmartPlug", "tapo_data.db", "plug_metrics",
               << Col("timestamp", "TEXT"), Col("current_power", "REAL") >>),
         Entry("schneider", NoValue, NoValue,
               << Col("current_power", "REAL") >>) >>,
      << DevicesDbEntryWide,
         Entry("SmartPlug", "tapo_data.db", "tapo_device_metrics",
               << Col("timestamp", "TEXT"), Col("current_power", "REAL") >>),
         Entry("schneider", "schneider_data.db", "schneider_device_metrics",
               << Col("timestamp", "TEXT"), Col("current_power", "REAL") >>) >> }
\* The schema files the functions main.py does not call are checked with.
DirectSchemaConfigs ==
    { \* a file with entries for the PowerSupply and modbus types as well
      << DevicesDbEntry,
         Entry("SmartPlug", "tapo_data.db", "tapo_device_metrics",
               << Col("timestamp", "TEXT"), Col("current_power", "REAL") >>),
         Entry("schneider", "schneider_data.db", "schneider_device_metrics",
               << Col("timestamp", "TEXT"), Col("current_power", "REAL") >>),
         Entry("PowerSupply", "powersupply_data.db", "powersupply_device_metrics",
               << Col("timestamp", "TEXT"), Col("current_power", "REAL") >>),
         Entry("modbus", NoValue, "modbus_device_metrics",
               << Col("timestamp", "TEXT"), Col("current_power", "REAL") >>) >>,
      \* a file whose Modbus types declare no timestamp, the schneider entry
      \* naming neither file nor table
      << DevicesDbEntry,
         Entry("SmartPlug", "tapo_data.db", "tapo_device_metrics",
               << Col("timestamp", "TEXT"), Col("current_power", "REAL") >>),
         Entry("schneider", NoValue, NoValue,
               << Col("current_power", "REAL") >>),
         Entry("PowerSupply", "powersupply_data.db", "powersupply_device_metrics",
               << Col("current_power", "REAL") >>),
         Entry("modbus", NoValue, "modbus_device_metrics",
               << Col("current_power", "REAL") >>) >>,
      \* the file in the shape save_device_reading reads: type -> columns
      << DevicesDbEntry,
         ListEntry("SmartPlug", ValueColumns),
         ListEntry("schneider", ValueColumns) >> }

\* schema_config.get(key, {}): the entry of a device type; a key the entry does
\* not have reads as None.
ConfigOf(cfg, k) ==
    IF \E i \in 1..Len(cfg) : cfg[i].key = k
    THEN cfg[CHOOSE i \in 1..Len(cfg) : cfg[i].key = k]
    ELSE Entry(k, NoValue, NoValue, << >>)

\* The readings the inserts are given: what get_tapo_device_data and
\* get_modbus_device_data return, as dicts.
TapoReadings ==
    { [device_name |-> "plug1", timestamp |-> "t1"],
      [device_name |-> "plug1", timestamp |-> "t1", current_power |-> "42"] }
ModbusReadings ==
    { [device_name |-> "meter1", timestamp |-> "t1", current_power |-> "42"],
      [device_name |-> "meter1", timestamp |-> "t1", current_power_error |-> "timed out"],
      [device_name |-> "meter1", error |-> "timed out"] }
NowStamp == "now"

StoreResult(d, made, err) == [db |-> d, created |-> made, error |-> err]

\* A statement that drops the table before creating it.
CreateTableIfNotExists_DropFirst(d, key, coldefs) ==
    IF coldefs = << >> \/ HasDuplicates(Names(coldefs))
    THEN StoreResult(d, FALSE, "OperationalError")
    ELSE StoreResult(SetItem(d, key, [columns |-> coldefs, rows |-> << >>]), TRUE, "")

\* SQLite's write lock on a datastore file: a connection whose INSERT has been
\* executed and not committed (data_service.py:100-104) holds it, and a
\* statement of another connection that has to write the file fails with
\* OperationalError, database is locked, when the lock is not given up within
\* the timeout of sqlite3.connect. A statement that finds the lock held is
\* modelled as failing; the one that waits and gets the lock is the statement
\* executed after the holder's commit.
WriteLocked(file) ==
    \E t \in SaveTasks :
       saving[t].at = "commit" /\ saving[t].db_config.database.file = file

\* SQLite's CREATE TABLE IF NOT EXISTS, as config_manager.py:90-104 and
\* data_service.py:332-339 execute and commit it: nothing happens to a table
\* that exists; a new table gets the columns named; two columns of one name
\* are an error, and so is a file that is locked.
CreateTableIfNotExists(d, key, coldefs) ==
    IF key \in DOMAIN d
    THEN StoreResult(d, FALSE, "")
    ELSE IF coldefs = << >> \/ HasDuplicates(Names(coldefs))
    THEN StoreResult(d, FALSE, "OperationalError")
    ELSE IF WriteLocked(key[1])
    THEN StoreResult(d, FALSE, "OperationalError")
    ELSE StoreResult(SetItem(d, key, [columns |-> coldefs, rows |-> << >>]), TRUE, "")

\* float('nan'), as the model writes numbers (see Number below).
NaN == << "number", 0, 0, 0 >>

\* The value sqlite3 binds to a `?` of a statement (data_service.py:86, 328):
\* None is NULL, and so is a float that is not a number; every other value is
\* bound as it is.
BindValue(v) == IF NaN = v THEN NoValue ELSE v

\* SQLite's INSERT INTO table (fields) VALUES (values), executed and committed
\* (data_service.py:84-88, 327-329): an error when the table is missing, when a
\* field is no column of it, when no field is named or when the file is
\* locked; else one more row, the columns not named left NULL.
InsertInto(d, key, fields, values) ==
    IF \/ key \notin DOMAIN d
       \/ fields = << >>
       \/ \E i \in 1..Len(fields) : fields[i] \notin SeqToSet(Names(d[key].columns))
       \/ WriteLocked(key[1])
    THEN StoreResult(d, FALSE, "OperationalError")
    ELSE LET row == [c \in SeqToSet(Names(d[key].columns)) \ {"id"} |->
                       IF c \in SeqToSet(fields)
                       THEN BindValue(values[CHOOSE i \in 1..Len(fields) : fields[i] = c])
                       ELSE NoValue]
         IN  StoreResult([d EXCEPT ![key].rows = Append(@, row)], FALSE, "")

\* config_manager.py:73-105: the loop over the entries of the schema file. An
\* exception leaves the loop; the tables created before it stay.
RECURSIVE CreateTypeTables(_, _, _)
CreateTypeTables(entries, d, made) ==
    IF entries = << >> THEN StoreResult(d, made, "")
    ELSE LET e == Head(entries)
         IN  IF e.key = "database"
             THEN CreateTypeTables(Tail(entries), d, made)
             ELSE IF IsList(e)
             THEN StoreResult(d, made, "AttributeError")
             ELSE IF e.file = NoValue \/ e.table = NoValue \/ e.schema = << >>
             THEN CreateTypeTables(Tail(entries), d, made)
             ELSE IF \E i \in 1..Len(e.schema) :
                        e.schema[i].name = Absent \/ e.schema[i].type = Absent
             THEN StoreResult(d, made, "KeyError")
             ELSE LET has_device_name ==
                          \E i \in 1..Len(e.schema) : e.schema[i].name = "device_name"
                      coldefs ==
                          << IdCol >>
                          \o (IF has_device_name THEN << >>
                              ELSE << Col("device_name", "TEXT") >>)
                          \o e.schema
                      r == CreateTableIfNotExists(d, << e.file, e.table >>, coldefs)
                  IN  IF r.error # "" THEN StoreResult(d, made, r.error)
                      ELSE CreateTypeTables(Tail(entries), r.db,
                               IF r.created THEN made \cup {<< e.file, e.table >>}
                               ELSE made)

\* config_manager.py:60-105.
create_type_tables_from_schema(d, cfg) == CreateTypeTables(cfg, d, {})

\* data_service.py:73-88: the insert of a SmartPlug reading.
save_data(d, cfg, dat, table_name) ==
    LET smartplug_config == ConfigOf(cfg, "SmartPlug")
        table == IF table_name # NoValue THEN table_name
                 ELSE IF smartplug_config.table # NoValue THEN smartplug_config.table
                 ELSE "tapo_device_metrics"
        db_file == IF smartplug_config.file # NoValue THEN smartplug_config.file
                   ELSE "tapo_data.db"
        HasName(c) == c.name # Absent
        schema_fields == Names(SelectSeq(smartplug_config.schema, HasName))
        insert_data == [i \in 1..Len(schema_fields) |-> Get(dat, schema_fields[i])]
    IN  IF IsList(smartplug_config) THEN StoreResult(d, FALSE, "AttributeError")
        ELSE InsertInto(d, << db_file, table >>, schema_fields, insert_data)

\* data_service.py:188-239, 241-292, 294-345: the insert of a reading of one of
\* the types modbus, PowerSupply and schneider, with its fallback: on an error
\* the table is created if it is missing and the insert is executed once more.
\* The three functions are the same text but for the entry of the schema file
\* they read and the table and the file they take when the entry names none.
InsertWithFallback(d, config, default_table, default_file, device_name, dat) ==
    LET schema == config.schema
        NotDeviceName(n) == n # "device_name"
        listed == SelectSeq(Names(schema), NotDeviceName)
        schema_fields == IF "timestamp" \in SeqToSet(listed) THEN listed
                         ELSE Append(listed, "timestamp")
        stamped == IF Get(dat, "timestamp") = NoValue
                   THEN SetItem(dat, "timestamp", NowStamp) ELSE dat
        named == IF "device_name" \notin DOMAIN stamped
                 THEN SetItem(stamped, "device_name", device_name) ELSE stamped
        fields == << "device_name" >> \o schema_fields
        values == << named["device_name"] >>
                  \o [i \in 1..Len(schema_fields) |-> Get(named, schema_fields[i])]
        table_name == IF config.table # NoValue THEN config.table ELSE default_table
        db_file == IF config.file # NoValue THEN config.file ELSE default_file
        key == << db_file, table_name >>
        first == InsertInto(d, key, fields, values)
        \* zip(schema_fields, schema): pairs by position, as long as the shorter
        zipped == [i \in 1..Min(Len(schema_fields), Len(schema)) |->
                      Col(schema_fields[i],
                          IF schema[i].type = Absent THEN "TEXT" ELSE schema[i].type)]
        made == IF zipped = << >>
                THEN StoreResult(d, FALSE, "OperationalError")
                ELSE CreateTableIfNotExists(d, key,
                         << IdCol, Col("device_name", "TEXT") >> \o zipped)
        second == InsertInto(made.db, key, fields, values)
    IN  IF IsList(config) THEN StoreResult(d, FALSE, "AttributeError")
        ELSE IF \E i \in 1..Len(schema) : schema[i].name = Absent
        THEN StoreResult(d, FALSE, "KeyError")
        ELSE IF first.error = "" THEN first
        ELSE IF made.error # "" THEN made
        ELSE StoreResult(second.db, made.created, second.error)

\* data_service.py:294-345.
save_schneider_device_reading(d, cfg, device_name, dat) ==
    InsertWithFallback(d, ConfigOf(cfg, "schneider"), "schneider_device_metrics",
                       "schneider_data.db", device_name, dat)

\* data_service.py:241-292.
save_powersupply_device_reading(d, cfg, device_name, dat) ==
    InsertWithFallback(d, ConfigOf(cfg, "PowerSupply"), "powersupply_device_metrics",
                       "powersupply_data.db", device_name, dat)

\* data_service.py:188-239. The file the entry does not name is
\* db_config['database']['file'], which is evaluated whether the entry names a
\* file or not (data_service.py:217) and raises TypeError on db_config=None.
save_modbus_device_reading(d, cfg, dbc, device_name, dat) ==
    LET r == InsertWithFallback(d, ConfigOf(cfg, "modbus"), "modbus_device_metrics",
                                IF dbc = NoDbConfig THEN NoValue ELSE dbc.database.file,
                                device_name, dat)
    IN  IF r.error \in {"AttributeError", "KeyError"} THEN r
        ELSE IF dbc = NoDbConfig THEN StoreResult(d, FALSE, "TypeError")
        ELSE r

\* data_service.py:94-103: save_device_reading up to its first await: the
\* exception it raises before that, or the INSERT it is about to execute, which
\* names the table of the device type in the file of db_config. The entry of
\* the type is read as a list of columns; over a mapping the loop reads its
\* keys, and col['name'] on a key raises TypeError.
save_device_reading(cfg, dbc, device_name, device_type, dat) ==
    LET present == \E i \in 1..Len(cfg) : cfg[i].key = device_type
        type_schema == IF present THEN ConfigOf(cfg, device_type).schema ELSE << >>
        schema_fields == Names(type_schema)
        error == IF present /\ ~IsList(ConfigOf(cfg, device_type)) THEN "TypeError"
                 ELSE IF \E i \in 1..Len(type_schema) : type_schema[i].name = Absent
                 THEN "KeyError"
                 ELSE IF dbc = NoDbConfig THEN "TypeError"
                 ELSE ""
    IN  [error |-> error,
         key |-> IF error = "" THEN << dbc.database.file, device_type >> ELSE << >>,
         schema_fields |-> schema_fields,
         fields |-> << "device_name" >> \o schema_fields,
         values |-> << device_name >>
                    \o [i \in 1..Len(schema_fields) |-> Get(dat, schema_fields[i])]]

\* data_service.py:100-103: `await conn.execute` of that INSERT on a connection
\* of its own. With no schema field the statement ends its column list with a
\* comma, a syntax error. The row is written in a transaction that is open
\* until the commit: it is returned, and the datastore other connections read
\* is as before.
ExecuteInsert(d, statement) ==
    LET r == InsertInto(d, statement.key, statement.fields, statement.values)
    IN  IF statement.schema_fields = << >>
        THEN [error |-> "OperationalError", row |-> EmptyDict]
        ELSE IF r.error # "" THEN [error |-> r.error, row |-> EmptyDict]
        ELSE [error |-> "", row |-> r.db[statement.key].rows[Len(r.db[statement.key].rows)]]

\* data_service.py:106-111: the loop of save_all_devices from its call, or from
\* the commit of one reading, to the first await of the next reading's save:
\* the call is suspended with `readings` left to save, or it has ended (nothing
\* pending), by returning or by the exception the next reading raises.
save_all_devices(cfg, dbc, readings) ==
    IF readings = << >> THEN [pending |-> << >>, error |-> ""]
    ELSE LET info == Head(readings)
             e == save_device_reading(cfg, dbc, info.device_name, info.type,
                                      info.data).error
         IN  IF e # "" THEN [pending |-> << >>, error |-> e]
             ELSE [pending |-> readings, error |-> ""]

\* data_service.py:25-38: the table of db_config is created if it is missing,
\* with the columns of its schema that have a name and a type.
create_table(d, config) ==
    LET database == config.database
        HasNameAndType(c) == c.name # Absent /\ c.type # Absent
        columns == SelectSeq(database.schema, HasNameAndType)
    IN  IF columns = << >> THEN StoreResult(d, FALSE, "OperationalError")
        ELSE CreateTableIfNotExists(d, << database.file, database.table >>,
                                    << IdCol >> \o columns)

\* config_manager.py:13-24: the device registry of the first layout.
create_devices_table(d, db_path) ==
    CreateTableIfNotExists(d, << db_path, "devices" >>,
        << IdCol, Col("name", "TEXT UNIQUE"), Col("type", "TEXT"),
           Col("connector", "TEXT") >>)

\* SQLite's INSERT OR REPLACE (config_manager.py:33-36): as INSERT, but a row
\* that has the new row's value in a UNIQUE column is deleted first.
InsertOrReplace(d, key, fields, values) ==
    LET r == InsertInto(d, key, fields, values)
        all == r.db[key].rows
        new == all[Len(all)]
        unique == {i \in 1..Len(d[key].columns) : d[key].columns[i].type = "TEXT UNIQUE"}
        Kept(row) == \A i \in unique :
                        \/ new[d[key].columns[i].name] = NoValue
                        \/ row[d[key].columns[i].name] # new[d[key].columns[i].name]
    IN  IF r.error # "" THEN r
        ELSE StoreResult([d EXCEPT ![key].rows = Append(SelectSeq(@, Kept), new)],
                         FALSE, "")

\* config_manager.py:26-37: one row per configured device. The statements run
\* in one transaction, which an exception rolls back.
RECURSIVE InsertDevices(_, _, _)
InsertDevices(d, db_path, devices) ==
    IF devices = << >> THEN StoreResult(d, FALSE, "")
    ELSE LET info == Head(devices)
             r == InsertOrReplace(d, << db_path, "devices" >>,
                      << "name", "type", "connector" >>,
                      << info.name, GetOr(info, "type", ""), GetOr(info, "connector", "") >>)
         IN  IF r.error # "" THEN r
             ELSE InsertDevices(r.db, db_path, Tail(devices))
insert_devices_from_yaml(d, db_path, devices) ==
    LET r == InsertDevices(d, db_path, devices)
    IN  IF r.error # "" THEN StoreResult(d, FALSE, r.error) ELSE r

\* config_manager.py:46-55: the statement create_type_tables_from_devices
\* executes for the device type t: a table named as the type, with the columns
\* device_name, timestamp and value. sqlite3 opens no transaction for it, so
\* the table is in the datastore as the statement returns.
create_type_tables_from_devices(d, db_path, t) ==
    CreateTableIfNotExists(d, << db_path, t >>,
        << IdCol, Col("device_name", "TEXT") >> \o ValueColumns)

\* The tables readings are inserted into: all but the device registry.
ReadingTables(d) == {k \in DOMAIN d : k[2] # "devices"}
\* The rows of the fullest reading table.
RowCount(d) ==
    IF ReadingTables(d) = {} THEN 0
    ELSE LET k == CHOOSE k \in ReadingTables(d) :
                     \A o \in ReadingTables(d) : Len(d[o].rows) <= Len(d[k].rows)
         IN  Len(d[k].rows)

\* config_manager.py:107-124: the device registry table is dropped and created
\* anew from the devices_db entry. sqlite3 commits each DDL statement as it is
\* executed, so a failing CREATE leaves the table dropped.
create_devices_table_from_schema(d, cfg) ==
    LET devices_db == ConfigOf(cfg, "devices_db")
        key == << devices_db.file, devices_db.table >>
        dropped == [k \in (DOMAIN d) \ {key} |-> d[k]]
    IN  IF \/ ~(\E i \in 1..Len(cfg) : cfg[i].key = "devices_db")
           \/ \E i \in 1..Len(devices_db.schema) :
                 devices_db.schema[i].name = Absent \/ devices_db.schema[i].type = Absent
        THEN StoreResult(d, FALSE, "KeyError")
        ELSE IF HasDuplicates(Names(<< IdCol >> \o devices_db.schema))
        THEN StoreResult(dropped, FALSE, "OperationalError")
        ELSE StoreResult(
                SetItem(dropped, key,
                        [columns |-> << IdCol >> \o devices_db.schema, rows |-> << >>]),
                TRUE, "")

\* config_manager.py:126-151: one row per configured device, the device's name
\* in the column `name`, info.get(col, '') in every other column.
insert_devices_from_yaml_to_devices_db(d, cfg, devices) ==
    LET devices_db == ConfigOf(cfg, "devices_db")
        key == << devices_db.file, devices_db.table >>
        columns == Names(devices_db.schema)
        RowOf(dev) == [c \in SeqToSet(Names(d[key].columns)) \ {"id"} |->
                          IF c \notin SeqToSet(columns) THEN NoValue
                          ELSE IF c = "name" THEN dev.name
                          ELSE IF c = "type" THEN dev.type
                          ELSE ""]
    IN  StoreResult(
            [d EXCEPT ![key].rows = @ \o [i \in 1..Len(devices) |-> RowOf(devices[i])]],
            FALSE, "")

\* main.py:13-17: the tables are set up as the program starts: the device
\* registry is recreated and filled, then the tables of the device types are
\* created from the schema. An exception ends the process where it is raised.
startup_tables(d, cfg, devices) ==
    LET registry == create_devices_table_from_schema(d, cfg)
        filled == insert_devices_from_yaml_to_devices_db(registry.db, cfg, devices)
    IN  IF registry.error # "" THEN StoreResult(registry.db, {}, registry.error)
        ELSE create_type_tables_from_schema(filled.db, cfg)

\* The program is started (again), the run before it having ended: no call of
\* that run is suspended.
EnsureTable ==
    /\ ensure_streak < MaxStreak
    /\ saving = NoCalls
    /\ running = NoRun
    /\ LET r == startup_tables(db, schema_config, device_config)
       IN  /\ db' = r.db
           /\ last_op' = [op |-> "ensure", error |-> r.error, created |-> r.created]
           /\ ensured' = (r.error = "")
    /\ ensure_streak' = ensure_streak + 1
    /\ UNCHANGED <<schema_config, db_config, saving, running>>
    /\ UNCHANGED <<pc, device_config, devices_by_type, ti, di, saved_devices, data,
                   inflight, rows, printed, sleep_secs, cycle, reads, lastRead,
                   lastSave, authFaults, committed>>
    /\ UNCHANGED <<authVars, modbusVars>>

\* The program is stopped and the schema file edited by hand; the next run
\* starts with EnsureTable.
EditSchema ==
    /\ \E cfg \in SchemaConfigs \ {schema_config} : schema_config' = cfg
    /\ last_op' = [op |-> "edit", error |-> "", created |-> {}]
    /\ ensure_streak' = 0
    /\ ensured' = FALSE
    /\ UNCHANGED <<db, db_config, saving, running>>
    /\ UNCHANGED <<pollVars, authVars, modbusVars>>

\* main.py:64: a SmartPlug reading is saved, into the table main.py names. The
\* loop runs only after the startup has gone through.
SaveData ==
    /\ ensured
    /\ RowCount(db) < MaxRows
    /\ \E dat \in TapoReadings :
         LET r == save_data(db, schema_config, dat, "tapo_device_metrics")
         IN  /\ db' = r.db
             /\ last_op' = [op |-> "save_data", error |-> r.error, created |-> {},
                            dat |-> dat]
    /\ ensure_streak' = 0
    /\ UNCHANGED <<schema_config, ensured, db_config, saving, running>>
    /\ UNCHANGED <<pollVars, authVars, modbusVars>>

\* main.py:72: a schneider reading is saved.
SaveSchneiderReading ==
    /\ running = NoRun
    /\ ensured
    /\ RowCount(db) < MaxRows
    /\ \E dat \in ModbusReadings :
         LET r == save_schneider_device_reading(db, schema_config, "meter1", dat)
         IN  /\ db' = r.db
             /\ last_op' = [op |-> "save_schneider", error |-> r.error,
                            created |-> (DOMAIN r.db) \ (DOMAIN db), dat |-> dat]
    /\ ensure_streak' = 0
    /\ UNCHANGED <<schema_config, ensured, db_config, saving, running>>
    /\ UNCHANGED <<pollVars, authVars, modbusVars>>

\* The db_config a DataService is constructed with, in code that gives one.
DbConfig(f, t, cols) == [database |-> [file |-> f, table |-> t, schema |-> cols]]
DbConfigs ==
    { DbConfig("devices.db", "device_metrics",
               << Col("timestamp", "TEXT"), Col("current_power", "REAL") >>),
      DbConfig("devices.db", "device_metrics",
               << Col("current_power", Absent) >>) }
\* The datastore files the functions of the first layout are called with: one
\* file holds the registry, the table of db_config and the tables of the types.
DbPaths == {"devices.db"}
\* The readings the direct calls are given.
DirectReadings ==
    { [timestamp |-> "t1", current_power |-> "42"],
      [current_power |-> "42"] }
TypedReading(n, t, ts, v) ==
    [device_name |-> n, type |-> t, data |-> [timestamp |-> ts, value |-> v]]
\* The readings save_all_devices is called with, in the order of the dict.
AllReadings ==
    { << TypedReading("plug1", "SmartPlug", "t1", "42"),
         TypedReading("meter1", "schneider", "t1", "42") >>,
      << TypedReading("plug1", "SmartPlug", "t1", "42"),
         TypedReading("psu1", "PowerSupply", "t1", "42") >> }
\* The readings save_device_reading is called with by a task of its own.
SingleReadings ==
    { TypedReading("plug1", "SmartPlug", "t0", "7"),
      TypedReading("meter1", "schneider", "t0", "7"),
      TypedReading("psu1", "PowerSupply", "t0", "7") }

\* data_service.py:12-19: a DataService is constructed; with a db_config its
\* table is created first. An exception leaves no new object.
NewDataService ==
    /\ running = NoRun
    /\ \E config \in DbConfigs \cup {NoDbConfig} :
         LET r == IF config = NoDbConfig THEN StoreResult(db, FALSE, "")
                  ELSE create_table(db, config)
         IN  /\ db' = r.db
             /\ db_config' = IF r.error = "" THEN config ELSE db_config
             /\ last_op' = [op |-> "create_table", error |-> r.error,
                            created |-> (DOMAIN r.db) \ (DOMAIN db)]
    /\ ensure_streak' = 0
    /\ UNCHANGED <<schema_config, ensured, saving, running>>
    /\ UNCHANGED <<pollVars, authVars, modbusVars>>

\* config_manager.py:13-24.
CreateDevicesTable ==
    /\ running = NoRun
    /\ \E db_path \in DbPaths :
         LET r == create_devices_table(db, db_path)
         IN  /\ db' = r.db
             /\ last_op' = [op |-> "create_devices_table", error |-> r.error,
                            created |-> (DOMAIN r.db) \ (DOMAIN db)]
    /\ ensure_streak' = 0
    /\ UNCHANGED <<schema_config, ensured, db_config, saving, running>>
    /\ UNCHANGED <<pollVars, authVars, modbusVars>>

\* config_manager.py:26-37.
InsertDevicesFromYaml ==
    /\ running = NoRun
    /\ \E db_path \in DbPaths :
         LET r == insert_devices_from_yaml(db, db_path, device_config)
         IN  /\ db' = r.db
             /\ last_op' = [op |-> "insert_devices_from_yaml", error |-> r.error,
                            created |-> {}]
    /\ ensure_streak' = 0
    /\ UNCHANGED <<schema_config, ensured, db_config, saving, running>>
    /\ UNCHANGED <<pollVars, authVars, modbusVars>>

\* config_manager.py:39-57: create_type_tables_from_devices is called and
\* executes its first statement, or, having the thread since its call, its
\* next one. The statement is for one of the device types `todo` the function
\* has not come to: the loop of config_manager.py:46 goes through a set, in an
\* order that is not fixed. An exception ends the function, and so does the
\* last statement; else the function keeps the thread, and what can happen
\* before its next statement is what the threads of the connections do.
CreateTypeTablesFromDevices ==
    /\ \E path \in DbPaths :
         LET called == running = NoRun
             db_path == IF called THEN path ELSE running.db_path
             types == {GetOr(device_config[i], "type", "") :
                          i \in 1..Len(device_config)} \ {""}
             todo == IF called THEN types ELSE running.todo
         IN  IF todo = {}
             THEN /\ last_op' = [op |-> "create_type_tables_from_devices",
                                 error |-> "", created |-> {}]
                  /\ UNCHANGED <<db, running>>
             ELSE \E t \in todo :
                    LET r == create_type_tables_from_devices(db, db_path, t)
                        created == running.created \cup
                                   (IF r.created THEN {<< db_path, t >>} ELSE {})
                        over == r.error # "" \/ todo = {t}
                    IN  /\ db' = r.db
                        /\ running' =
                              IF over THEN NoRun
                              ELSE [op |-> "create_type_tables_from_devices",
                                    db_path |-> db_path, todo |-> todo \ {t},
                                    created |-> created]
                        /\ last_op' = [op |-> "create_type_tables_from_devices",
                                       error |-> r.error, created |-> created]
    /\ ensure_streak' = 0
    /\ UNCHANGED <<schema_config, ensured, db_config, saving>>
    /\ UNCHANGED <<pollVars, authVars, modbusVars>>

\* data_service.py:241-292: a PowerSupply reading is saved.
SavePowersupplyReading ==
    /\ running = NoRun
    /\ RowCount(db) < MaxRows
    /\ \E dat \in DirectReadings :
         LET r == save_powersupply_device_reading(db, schema_config, "psu1", dat)
         IN  /\ db' = r.db
             /\ last_op' = [op |-> "save_powersupply", error |-> r.error,
                            created |-> (DOMAIN r.db) \ (DOMAIN db), dat |-> dat]
    /\ ensure_streak' = 0
    /\ UNCHANGED <<schema_config, ensured, db_config, saving, running>>
    /\ UNCHANGED <<pollVars, authVars, modbusVars>>

\* data_service.py:188-239: a reading of the type modbus is saved.
SaveModbusDeviceReading ==
    /\ running = NoRun
    /\ RowCount(db) < MaxRows
    /\ \E dat \in DirectReadings :
         LET r == save_modbus_device_reading(db, schema_config, db_config, "meter1", dat)
         IN  /\ db' = r.db
             /\ last_op' = [op |-> "save_modbus", error |-> r.error,
                            created |-> (DOMAIN r.db) \ (DOMAIN db), dat |-> dat]
    /\ ensure_streak' = 0
    /\ UNCHANGED <<schema_config, ensured, db_config, saving, running>>
    /\ UNCHANGED <<pollVars, authVars, modbusVars>>

\* The call of coroutine t with `readings` from a task of the event loop: it
\* runs to its first await, where the event loop takes over and other tasks
\* run, or ends at once with the exception raised before that.
Call(t, readings) ==
    /\ running = NoRun
    /\ saving[t].at = "idle"
    /\ RowCount(db) + Len(readings) <= MaxRows
    /\ LET c == save_all_devices(schema_config, db_config, readings)
       IN  /\ saving' = [saving EXCEPT ![t] =
                            IF c.pending = << >> THEN NoCall
                            ELSE [NoCall EXCEPT !.db_config = db_config,
                                                !.pending = c.pending,
                                                !.at = "execute"]]
           /\ last_op' = [op |-> t, error |-> c.error, created |-> {},
                          at |-> IF c.pending = << >> THEN "idle" ELSE "execute"]
    /\ ensure_streak' = 0
    /\ UNCHANGED <<schema_config, db, ensured, db_config, running>>
    /\ UNCHANGED <<pollVars, authVars, modbusVars>>

\* data_service.py:90-104: save_device_reading is called for one device.
SaveDeviceReading ==
    \E info \in SingleReadings : Call("save_device_reading", << info >>)

\* data_service.py:106-111: save_all_devices is called for several devices.
SaveAllDevices ==
    \E readings \in AllReadings : Call("save_all_devices", readings)

\* data_service.py:100-103: the thread of a call's connection executes the
\* INSERT handed to it, whatever the event loop's thread is doing.
ThreadExecute ==
    \E t \in SaveTasks :
       /\ saving[t].at = "execute"
       /\ LET info == Head(saving[t].pending)
              r == ExecuteInsert(db, save_device_reading(schema_config,
                       saving[t].db_config, info.device_name, info.type, info.data))
          IN  saving' = [saving EXCEPT ![t] =
                            IF r.error # ""
                            THEN [@ EXCEPT !.at = "raised", !.error = r.error]
                            ELSE [@ EXCEPT !.at = "commit", !.row = r.row]]
       /\ UNCHANGED <<schema_config, db, last_op, ensure_streak, ensured, db_config,
                      running>>
       /\ UNCHANGED <<pollVars, authVars, modbusVars>>

\* data_service.py:104: the thread of a call's connection executes the COMMIT
\* handed to it: the row is in the datastore and the file is unlocked.
ThreadCommit ==
    \E t \in SaveTasks :
       /\ saving[t].at = "commit" /\ saving[t].handed
       /\ LET key == << saving[t].db_config.database.file,
                        Head(saving[t].pending).type >>
          IN  db' = [db EXCEPT ![key].rows = Append(@, saving[t].row)]
       /\ saving' = [saving EXCEPT ![t] = [@ EXCEPT !.at = "committed",
                                                     !.handed = FALSE,
                                                     !.row = EmptyDict]]
       /\ UNCHANGED <<schema_config, last_op, ensure_streak, ensured, db_config,
                      running>>
       /\ UNCHANGED <<pollVars, authVars, modbusVars>>

\* data_service.py:99-104, 110-111: the event loop resumes a call with the
\* outcome of the statement it awaits. After the INSERT the call hands over
\* the COMMIT; an exception of the INSERT ends the call, the connection is
\* closed, and the rows the call committed before stay. After the COMMIT the
\* connection is closed, which changes nothing more in the datastore, and
\* save_all_devices goes on to the first await of its next reading, or the
\* call ends.
Resume ==
    /\ running = NoRun
    /\ \E t \in SaveTasks :
         /\ \/ saving[t].at = "commit" /\ ~saving[t].handed
            \/ saving[t].at \in {"raised", "committed"}
         /\ LET c == IF saving[t].at = "commit"
                     THEN [pending |-> saving[t].pending, error |-> ""]
                     ELSE IF saving[t].at = "raised"
                     THEN [pending |-> << >>, error |-> saving[t].error]
                     ELSE save_all_devices(schema_config, saving[t].db_config,
                                           Tail(saving[t].pending))
                at == IF c.pending = << >> THEN "idle"
                      ELSE IF saving[t].at = "commit" THEN "commit"
                      ELSE "execute"
            IN  /\ saving' = [saving EXCEPT ![t] =
                                 IF at = "idle" THEN NoCall
                                 ELSE [@ EXCEPT !.pending = c.pending, !.at = at,
                                                !.handed = (at = "commit")]]
                /\ last_op' = [op |-> t, error |-> c.error, created |-> {},
                               at |-> at]
    /\ ensure_streak' = 0
    /\ UNCHANGED <<schema_config, db, ensured, db_config, running>>
    /\ UNCHANGED <<pollVars, authVars, modbusVars>>

InitStore ==
    /\ schema_config \in SchemaConfigs
    /\ db = EmptyDict
    /\ last_op = [op |-> "none", error |-> "", created |-> {}]
    /\ ensure_streak = 0
    /\ ensured = FALSE
    /\ db_config = NoDbConfig
    /\ saving = NoCalls
    /\ running = NoRun
    /\ PollIdle /\ device_config = << Plug("plug1"), Meter("meter1") >>
    /\ AuthIdle
    /\ ModbusIdle

NextStore ==
    \/ EnsureTable
    \/ EditSchema
    \/ SaveData
    \/ SaveSchneiderReading

SpecStore == InitStore /\ [][NextStore]_vars

\* The functions main.py does not call, called on the files main.py's startup
\* and its save of a schneider reading work on.
InitDirect ==
    /\ schema_config \in DirectSchemaConfigs
    /\ db = EmptyDict
    /\ last_op = [op |-> "none", error |-> "", created |-> {}]
    /\ ensure_streak = 0
    /\ ensured = FALSE
    /\ db_config = NoDbConfig
    /\ saving = NoCalls
    /\ running = NoRun
    /\ PollIdle /\ device_config = << Plug("plug1"), Meter("meter1") >>
    /\ AuthIdle
    /\ ModbusIdle

NextDirect ==
    \/ EnsureTable
    \/ SaveSchneiderReading
    \/ NewDataService
    \/ CreateDevicesTable
    \/ InsertDevicesFromYaml
    \/ CreateTypeTablesFromDevices
    \/ SavePowersupplyReading
    \/ SaveModbusDeviceReading
    \/ SaveDeviceReading
    \/ SaveAllDevices
    \/ ThreadExecute
    \/ ThreadCommit
    \/ Resume

SpecDirect == InitDirect /\ [][NextDirect]_vars

(***************************************************************************)
(*                        Properties of the store                          *)
(***************************************************************************)
TypeEntries(cfg) ==
    {i \in 1..Len(cfg) :
        /\ cfg[i].key \notin {"database", "devices_db"}
        /\ cfg[i].file # NoValue /\ cfg[i].table # NoValue /\ cfg[i].schema # << >>}
HasRows(d) == \E k \in ReadingTables(d) : d[k].rows # << >>

\* C9: right after create_type_tables_from_schema has run, running it again with
\* the same schema creates no table and leaves every table, its columns and
\* its rows as they are, and ends as the first call ended; the second of two
\* calls in a row has created nothing.
C9_EnsureTableIdempotent ==
    last_op.op = "ensure" =>
        LET again == create_type_tables_from_schema(db, schema_config)
        IN  /\ again.db = db
            /\ again.created = {}
            /\ again.error = last_op.error
            /\ ensure_streak >= 2 => last_op.created = {}

\* C9's case: the second of two calls in a row has run on a datastore that
\* holds a table with rows.
C9_Witness ==
    /\ last_op.op = "ensure"
    /\ last_op.error = ""
    /\ ensure_streak = 2
    /\ HasRows(db)

\* C10 (as the spec states it): once the tables have been created from the
\* schema as it is now, every column the schema declares for a device type is a
\* column of that type's table (a column added to the schema since the table
\* was created has been added to the table), and a schneider reading saved
\* after that is inserted, its current_power stored in the new row.
C10_SchemaEvolution ==
    ensured =>
      \A i \in TypeEntries(schema_config) :
         LET e == schema_config[i]
             key == << e.file, e.table >>
         IN  /\ key \in DOMAIN db
             /\ SeqToSet(Names(e.schema)) \subseteq SeqToSet(Names(db[key].columns))
             /\ (e.key = "schneider" /\ last_op.op = "save_schneider") =>
                   /\ last_op.error = ""
                   /\ "current_power" \in SeqToSet(Names(e.schema)) =>
                         db[key].rows[Len(db[key].rows)].current_power
                            = Get(last_op.dat, "current_power")

\* The columns of a table, each with its declared type.
ColumnSet(t) == {t.columns[i] : i \in 1..Len(t.columns)}

\* C11 (as the spec states it): over every step of startup, table creation and
\* insert, every table that exists stays, and every column of it stays a column
\* of it with the type it was declared with, the device registry included.
C11_ColumnsOnlyGrow ==
    [][\A key \in DOMAIN db :
          /\ key \in DOMAIN db'
          /\ ColumnSet(db[key]) \subseteq ColumnSet(db'[key])]_vars

\* The table a save writes to: save_data is given main.py:64's table name and
\* takes the file of the SmartPlug entry (data_service.py:76-77),
\* save_schneider_device_reading the table and the file of the schneider entry
\* (data_service.py:322-323); a key the entry lacks has the code's default.
SaveTarget(cfg, op) ==
    IF op = "save_data"
    THEN << IF ConfigOf(cfg, "SmartPlug").file # NoValue
            THEN ConfigOf(cfg, "SmartPlug").file ELSE "tapo_data.db",
            "tapo_device_metrics" >>
    ELSE << IF ConfigOf(cfg, "schneider").file # NoValue
            THEN ConfigOf(cfg, "schneider").file ELSE "schneider_data.db",
            IF ConfigOf(cfg, "schneider").table # NoValue
            THEN ConfigOf(cfg, "schneider").table ELSE "schneider_device_metrics" >>
\* The schema columns of the device type a save belongs to.
SaveSchemaNames(cfg, op) ==
    SeqToSet(Names(ConfigOf(cfg, IF op = "save_data" THEN "SmartPlug"
                                   ELSE "schneider").schema))

\* C12 (as the spec states it): a save into a table that exists and has at
\* least one of the schema's columns succeeds, also when the schema declares a
\* column the table does not have: the new row is written with the columns the
\* table has.
C12_InsertOnlyLiveColumns ==
    (last_op.op \in {"save_data", "save_schneider"}
       /\ SaveTarget(schema_config, last_op.op) \in DOMAIN db) =>
        LET t == db[SaveTarget(schema_config, last_op.op)]
        IN  SaveSchemaNames(schema_config, last_op.op) \cap SeqToSet(Names(t.columns)) # {}
               => /\ last_op.error = ""
                  /\ t.rows # << >>

\* C13 (as the spec states it): a save that succeeds, of a reading whose keys
\* are all columns of the table, appends one row to that table, the reading's
\* value in every column the reading has and NULL in the others, and changes
\* nothing else in the datastore.
C13_InsertPersistsReading ==
    [][(/\ last_op'.op \in {"save_data", "save_schneider"}
        /\ last_op'.error = ""
        /\ SaveTarget(schema_config, last_op'.op) \in DOMAIN db
        /\ DOMAIN last_op'.dat
              \subseteq SeqToSet(Names(db[SaveTarget(schema_config, last_op'.op)].columns)))
       => LET key == SaveTarget(schema_config, last_op'.op)
              expected == [c \in SeqToSet(Names(db[key].columns)) \ {"id"} |->
                              Get(last_op'.dat, c)]
          IN  db' = [db EXCEPT ![key].rows = Append(@, expected)]]_vars

\* C14 (as the spec states it): a save is one insert and nothing else: it
\* creates no table, and a save that ends in an error leaves the datastore as
\* it was.
C14_SingleInsertAttempt ==
    [][last_op'.op \in {"save_data", "save_schneider"} =>
          /\ last_op'.created = {}
          /\ DOMAIN db' = DOMAIN db
          /\ last_op'.error # "" => db' = db]_vars

(***************************************************************************)
(*        src/services/data_service.py: the Modbus read and its save       *)
(***************************************************************************)

\* A column with Modbus metadata: name, type, address and the keys of `more`
\* (length, scale, format) the schema file gives for it.
MField(n, a, more) ==
    [k \in {"name", "type", "address"} \cup DOMAIN more |->
        IF k = "name" THEN n ELSE IF k = "type" THEN "REAL"
        ELSE IF k = "address" THEN a ELSE more[k]]

\* Numbers as Python computes them, written <<"number", sig, exp2, den>> for
\* sig * 2^exp2 / den in lowest terms (sig and den odd, den > 0, zero is
\* <<"number", 0, 0, 1>>), so that two numbers are equal exactly when their
\* tuples are. den = 0 marks what is no number: sig 1 is inf, sig -1 is -inf,
\* sig 0 is nan. The tag tells a number from a string.
RECURSIVE GCD(_, _)
GCD(a, b) == IF b = 0 THEN a ELSE GCD(b, a % b)
Abs(a) == IF a < 0 THEN -a ELSE a
RECURSIVE StripTwos(_, _)
StripTwos(n, k) == IF n # 0 /\ n % 2 = 0 THEN StripTwos(n \div 2, k + 1) ELSE << n, k >>
Number(sig, exp2, den) ==
    IF den = 0 THEN << "number", sig, 0, 0 >>
    ELSE IF sig = 0 THEN << "number", 0, 0, 1 >>
    ELSE LET g == GCD(Abs(sig), den)
             n == StripTwos(sig \div g, exp2)
             d == StripTwos(den \div g, 0)
         IN  << "number", n[1], n[2] - d[2], d[1] >>
IntValue(n) == Number(n, 0, 1)

\* v & 0xFFFF (data_service.py:168).
Mask16(v) == v % 65536

\* struct.unpack('>f', struct.pack('>HH', hi, lo)) (data_service.py:169-170):
\* the IEEE-754 binary32 number whose bits are the two registers, hi first.
UnpackFloat(hi, lo) ==
    LET sign == IF hi \div 32768 = 1 THEN -1 ELSE 1
        e    == (hi % 32768) \div 128
        m    == (hi % 128) * 65536 + lo
    IN  IF e = 255 THEN (IF m = 0 THEN Number(sign, 0, 0) ELSE NaN)
        ELSE IF e = 0 THEN Number(sign * m, -149, 1)
        ELSE Number(sign * (8388608 + m), e - 150, 1)

\* value / scale if scale > 1 else value (data_service.py:171, 174).
Scaled(value, scale) ==
    IF scale > 1 THEN Number(value[2], value[3], value[4] * scale) ELSE value

\* data_service.py:167-174: the value of a field from the registers received.
DecodeRegisters(length, fmt, scale, response) ==
    IF length = 2 /\ fmt = ">f"
    THEN Scaled(UnpackFloat(Mask16(response[1]), Mask16(response[2])), scale)
    ELSE Scaled(IntValue(response[1]), scale)

ReadStamp == "t1"
ErrorKey(name) == name \o "_error"

\* data_service.py:147-176: the loop over the fields of the schema. Each
\* register field is requested in its turn; an exception in the request or in
\* the decoding is caught per field and recorded under <name>_error.
RECURSIVE ReadFields(_, _, _, _)
ReadFields(fields, ans, dat, sent) ==
    IF fields = << >> THEN [data |-> dat, requests |-> sent]
    ELSE LET field == Head(fields)
             name  == field.name
         IN  IF name = "device_name"
             THEN ReadFields(Tail(fields), ans, dat, sent)
             ELSE IF name = "timestamp"
             THEN ReadFields(Tail(fields), ans, SetItem(dat, "timestamp", ReadStamp), sent)
             ELSE LET address == GetOr(field, "address", NoValue)
                      length  == GetOr(field, "length", 1)
                      scale   == GetOr(field, "scale", 1)
                      fmt     == GetOr(field, "format", ">I")
                      request == [name |-> name, starting_address |-> address,
                                  quantity |-> length]
                  IN  ReadFields(Tail(fields), ans,
                         IF ans[name].ok
                         THEN SetItem(dat, name,
                                  DecodeRegisters(length, fmt, scale, ans[name].regs))
                         ELSE SetItem(dat, ErrorKey(name), "error"),
                         Append(sent, request))

\* data_service.py:117-186. `conn` is how sock.connect ends, `ans` what the
\* device answers to each request.
get_modbus_device_data(devices, cfg, device_name, conn, ans) ==
    LET device == DeviceInfo(devices, device_name)
        device_schema ==
            IF ConfigOf(cfg, device.type).schema # << >>
            THEN ConfigOf(cfg, device.type).schema
            ELSE ConfigOf(cfg, "modbus").schema
        named == SetItem(EmptyDict, "device_name", device_name)
        read  == ReadFields(device_schema, ans, named, << >>)
    IN  IF ~device.ip THEN [data |-> named, requests |-> << >>]
        ELSE IF conn # "ok"
        THEN [data |-> SetItem(named, "error", conn), requests |-> << >>]
        ELSE [data |-> IF "timestamp" \in DOMAIN read.data THEN read.data
                       ELSE SetItem(read.data, "timestamp", ReadStamp),
              requests |-> read.requests]

\* The schneider schemas the Modbus reads are checked with.
ModbusColumnVariants ==
    { << Col("timestamp", "TEXT"),
         MField("voltage", 0, [scale |-> 10]),
         MField("current_power", 2, [length |-> 2, format |-> ">f"]) >>,
      << Col("device_name", "TEXT"), Col("timestamp", "TEXT"),
         MField("energy", 4, [length |-> 2]) >>,
      << Col("timestamp", "TEXT"),
         MField("energy", 4, [length |-> 2, format |-> ">I", scale |-> 10]),
         MField("frequency", 6, [length |-> 1]) >>,
      << Col("timestamp", "TEXT"),
         MField("current_power", 2, [length |-> 2, format |-> ">f", scale |-> 10]) >>,
      << Col("timestamp", "TEXT"),
         MField("total", 8, [length |-> 3]) >>,
      << Col("timestamp", "TEXT"),
         MField("status", 11, [length |-> 2, format |-> ">H"]) >>,
      << MField("voltage", 0, [scale |-> 1]),
         MField("current", 1, [length |-> 1]),
         MField("frequency", 6, [length |-> 1]),
         Col("timestamp", "TEXT") >>,
      \* schemas that do not list timestamp
      << MField("voltage", 0, [scale |-> 10]),
         MField("frequency", 6, [length |-> 1]) >>,
      << Col("device_name", "TEXT"),
         MField("current_power", 2, [length |-> 2, format |-> ">f"]) >> }
ModbusSchemaConfigs ==
    { << DevicesDbEntry,
         Entry("SmartPlug", "tapo_data.db", "tapo_device_metrics",
               << Col("timestamp", "TEXT"), Col("current_power", "REAL") >>),
         Entry("schneider", "schneider_data.db", "schneider_device_metrics", cols) >>
      : cols \in ModbusColumnVariants }
ModbusDevices ==
    << Meter("meter1"), [name |-> "meter0", type |-> "schneider", ip |-> FALSE] >>

\* Registers as umodbus hands them over with conf.SIGNED_VALUES = True
\* (data_service.py:142): signed 16-bit values.
RegValues == {0, 1234, 16256, -1}
ConnectOutcomes == {"ok", "refused", "timed out"}
NoAnswer == [ok |-> FALSE, regs |-> << >>]

\* The fields of a schema a register request is sent for.
RegisterFields(schema) ==
    LET IsRegister(f) == f.name \notin {"device_name", "timestamp"}
    IN  SelectSeq(schema, IsRegister)
\* What a device may answer to the requests of one read: for each field either
\* no usable answer (a Modbus exception, a timeout) or `length` registers.
AnswersTo(schema) ==
    LET fs == RegisterFields(schema)
        ByName(n) == fs[CHOOSE i \in 1..Len(fs) : fs[i].name = n]
    IN  { a \in [SeqToSet(Names(fs)) ->
                   {NoAnswer} \cup
                   UNION {{[ok |-> TRUE, regs |-> r] : r \in [1..l -> RegValues]}
                          : l \in {GetOr(fs[i], "length", 1) : i \in 1..Len(fs)}}] :
            \A n \in SeqToSet(Names(fs)) :
               a[n].ok => Len(a[n].regs) = GetOr(ByName(n), "length", 1) }

\* main.py:69-71: get_modbus_device_data is run for a schneider device.
GetModbusDeviceData ==
    /\ mpc = "read"
    /\ mreads < MaxReads
    /\ mreads' = mreads + 1
    /\ \E name \in DeviceNames(device_config), conn \in ConnectOutcomes :
         /\ DeviceInfo(device_config, name).type = "schneider"
         /\ \E ans \in IF DeviceInfo(device_config, name).ip /\ conn = "ok"
                       THEN AnswersTo(ConfigOf(schema_config, "schneider").schema)
                       ELSE {EmptyDict} :
              LET r == get_modbus_device_data(device_config, schema_config, name,
                                              conn, ans)
              IN  /\ mdevice' = name
                  /\ connected' = IF DeviceInfo(device_config, name).ip
                                  THEN conn ELSE NoValue
                  /\ answers' = ans
                  /\ requests' = r.requests
                  /\ reading' = r.data
    /\ mpc' = "save"
    /\ UNCHANGED <<pollVars, authVars, storeVars>>

\* main.py:72: the reading is handed to save_schneider_device_reading.
SaveModbusReading ==
    /\ mpc = "save"
    /\ RowCount(db) < MaxRows
    /\ LET r == save_schneider_device_reading(db, schema_config, mdevice, reading)
       IN  /\ db' = r.db
           /\ last_op' = [op |-> "save_schneider", error |-> r.error,
                          created |-> (DOMAIN r.db) \ (DOMAIN db), dat |-> reading]
    /\ mpc' = "read"
    /\ UNCHANGED <<schema_config, ensure_streak, ensured, db_config, saving, running>>
    /\ UNCHANGED <<mdevice, connected, answers, requests, reading, mreads>>
    /\ UNCHANGED <<pollVars, authVars>>

\* The program has started: the tables are those startup leaves.
InitModbus ==
    /\ saving = NoCalls
    /\ running = NoRun
    /\ schema_config \in ModbusSchemaConfigs
    /\ db = startup_tables(EmptyDict, schema_config, ModbusDevices).db
    /\ last_op = [op |-> "ensure", error |-> "", created |-> DOMAIN db]
    /\ ensure_streak = 1
    /\ ensured = TRUE
    /\ db_config = NoDbConfig
    /\ mpc = "read"
    /\ mdevice = NoValue
    /\ connected = NoValue
    /\ answers = EmptyDict
    /\ requests = << >>
    /\ reading = EmptyDict
    /\ mreads = 0
    /\ PollIdle /\ device_config = ModbusDevices
    /\ AuthIdle

NextModbus ==
    \/ GetModbusDeviceData
    \/ SaveModbusReading

SpecModbus == InitModbus /\ [][NextModbus]_vars

(***************************************************************************)
(*                     Properties of the Modbus read                       *)
(***************************************************************************)
SchneiderSchema == ConfigOf(schema_config, "schneider").schema
SchneiderTable ==
    db[<< ConfigOf(schema_config, "schneider").file,
          ConfigOf(schema_config, "schneider").table >>]
RegisterNames == SeqToSet(Names(RegisterFields(SchneiderSchema)))
\* The fields whose request failed in the latest read.
FailedFields == {n \in DOMAIN answers : ~answers[n].ok}
\* The latest read reached the device.
ReadConnected == mdevice # NoValue /\ connected = "ok"
\* The latest reading has been handed to save_schneider_device_reading.
ReadingSaved == mreads > 0 /\ mpc = "read" /\ last_op.op = "save_schneider"
LastRow(t) == t.rows[Len(t.rows)]

\* C15 (as the spec states it): in a read that reached the device, whatever
\* fields fail, one request is sent for every register field of the schema, in
\* schema order; a field that did not fail is in the reading with its value, a
\* field that failed is in it only as <name>_error; the reading has a
\* timestamp; and the save writes one row, with the reading's value for each
\* field that did not fail, NULL for each that failed, and the reading's
\* timestamp.
C15_RealValuesPersisted ==
    ReadConnected =>
      /\ Names(requests) = Names(RegisterFields(SchneiderSchema))
      /\ \A n \in RegisterNames \ FailedFields :
            n \in DOMAIN reading /\ ErrorKey(n) \notin DOMAIN reading
      /\ \A n \in FailedFields :
            n \notin DOMAIN reading /\ ErrorKey(n) \in DOMAIN reading
      /\ "timestamp" \in DOMAIN reading /\ reading["timestamp"] = ReadStamp
      /\ ReadingSaved =>
            /\ last_op.error = ""
            /\ SchneiderTable.rows # << >>
            /\ \A n \in RegisterNames \ FailedFields :
                  reading[n] = LastRow(SchneiderTable)[n]
            /\ \A n \in FailedFields : LastRow(SchneiderTable)[n] = NoValue
            /\ LastRow(SchneiderTable)["timestamp"] = ReadStamp
            /\ LastRow(SchneiderTable)["device_name"] = mdevice

\* C16 (as the spec states it): the row written for a reading in which a field
\* failed holds that field's error marker, the value recorded under
\* <name>_error, in a column of that name.
C16_ErrorMarkerInRow ==
    (ReadConnected /\ ReadingSaved /\ last_op.error = "") =>
        \A n \in FailedFields :
           /\ ErrorKey(n) \in SeqToSet(Names(SchneiderTable.columns))
           /\ LastRow(SchneiderTable)[ErrorKey(n)] = reading[ErrorKey(n)]

\* The latest read could not connect to the device.
ConnectFailed == connected \in ConnectOutcomes \ {"ok"}

\* C17 (as the spec states it): a read whose connect fails sends no register
\* request and returns the one top-level error and no field; and the step
\* that follows it in the cycle writes nothing to the datastore: the read is
\* a failed read, not a reading to save.
C17_ConnectFailureAbortsRead ==
    [][/\ (mpc = "read" /\ ConnectFailed') =>
             /\ requests' = << >>
             /\ DOMAIN reading' = {"device_name", "error"}
       /\ (mpc = "save" /\ ConnectFailed) => db' = db]_vars

\* C18 (as the spec states it): every row of every reading table has a
\* timestamp and a device_name that are not NULL, and the row a save has just
\* written names the device the reading came from.
C18_RowsCarryNameAndStamp ==
    /\ \A k \in ReadingTables(db) : \A i \in 1..Len(db[k].rows) :
          /\ "device_name" \in DOMAIN db[k].rows[i]
          /\ db[k].rows[i]["device_name"] # NoValue
          /\ "timestamp" \in DOMAIN db[k].rows[i]
          /\ db[k].rows[i]["timestamp"] # NoValue
    /\ (last_op.op \in {"save_data", "save_schneider"} /\ last_op.error = "") =>
          LastRow(db[SaveTarget(schema_config, last_op.op)])["device_name"]
             = last_op.dat["device_name"]

\* The (registerCount, wireFormat) pairs the decoding is specified for.
SupportedPair(length, fmt) ==
    \/ length = 1
    \/ length = 2 /\ fmt \in {">f", ">I"}

\* C19 (as the spec states it): a field whose (length, format) pair is not a
\* supported one is never decoded: the reading has its error marker and no
\* value for it.
C19_UnsupportedPairIsError ==
    ReadConnected =>
       \A i \in 1..Len(RegisterFields(SchneiderSchema)) :
          LET field == RegisterFields(SchneiderSchema)[i]
          IN  ~SupportedPair(GetOr(field, "length", 1), GetOr(field, "format", ">I"))
                 => /\ field.name \notin DOMAIN reading
                    /\ ErrorKey(field.name) \in DOMAIN reading

RECURSIVE Pow2(_)
Pow2(k) == IF k = 0 THEN 1 ELSE 2 * Pow2(k - 1)
\* A number is the 32-bit word whose halves are hi and lo.
IsWord(v, hi, lo) ==
    /\ v[4] = 1 /\ v[2] >= 0 /\ v[3] \in 0..30
    /\ (v[2] * Pow2(v[3])) \div 65536 = hi
    /\ (v[2] * Pow2(v[3])) % 65536 = lo

\* C20 (as the spec states it): the value of a two-register field of format
\* '>I' is the word (r0 mod 2^16) * 2^16 + (r1 mod 2^16), divided by scale
\* when scale > 1.
C20_Unsigned32FromBothRegisters ==
    ReadConnected =>
       \A i \in 1..Len(RegisterFields(SchneiderSchema)) :
          LET field == RegisterFields(SchneiderSchema)[i]
              scale == GetOr(field, "scale", 1)
              regs  == answers[field.name].regs
          IN  (/\ GetOr(field, "length", 1) = 2
               /\ GetOr(field, "format", ">I") = ">I"
               /\ answers[field.name].ok)
              => /\ field.name \in DOMAIN reading
                 /\ LET v == reading[field.name]
                    IN  IsWord(Number(v[2] * (IF scale > 1 THEN scale ELSE 1),
                                      v[3], v[4]),
                               regs[1] % 65536, regs[2] % 65536)

(***************************************************************************)
(*                 Properties of schema loading at startup                 *)
(***************************************************************************)
\* The entries of device types (the registry entry and `database` aside).
DeviceTypeEntries(cfg) ==
    {i \in 1..Len(cfg) : cfg[i].key \notin {"database", "devices_db"}}
LacksTableOrFile(e) == e.file = NoValue \/ e.table = NoValue
LacksName(e) == \E j \in 1..Len(e.schema) : e.schema[j].name = Absent
LacksType(e) == \E j \in 1..Len(e.schema) : e.schema[j].type = Absent
\* The columns of an entry that have a type.
TypedColumns(e) ==
    LET HasType(c) == c.type # Absent
    IN  SelectSeq(e.schema, HasType)

\* C22 (as the spec states it): after startup has gone through the schema, a
\* device type without table or datastore file, or with a column without a
\* name, has ended startup with an error; a column without a type alone ends
\* it with none, and the type's table exists with the columns that have one.
C22_MalformedSchemaRejected ==
    last_op.op = "ensure" =>
       /\ (\E i \in DeviceTypeEntries(schema_config) :
             LacksTableOrFile(schema_config[i]) \/ LacksName(schema_config[i]))
          => last_op.error # ""
       /\ (\A i \in DeviceTypeEntries(schema_config) :
             ~LacksTableOrFile(schema_config[i]) /\ ~LacksName(schema_config[i]))
          => /\ last_op.error = ""
             /\ \A i \in DeviceTypeEntries(schema_config) :
                   LET e == schema_config[i]
                   IN  /\ << e.file, e.table >> \in DOMAIN db
                       /\ LacksType(e) =>
                            SeqToSet(Names(db[<< e.file, e.table >>].columns))
                               = {"id", "device_name"}
                                    \cup SeqToSet(Names(TypedColumns(e)))

\* C23 (as the spec states it): when a cycle has printed its report, every
\* device reported "data saved" was read in that cycle and its reading
\* inserted: its row of the cycle is in the table.
C23_ReportedOnlyIfSaved ==
    pc = "sleep" =>
       \A d \in printed :
          /\ d \in DOMAIN reads /\ reads[d] = cycle
          /\ lastSave[d] \in SavedOutcomes
          /\ Row(d, cycle) \in rows

\* C24 (as the spec states it): once startup has created the tables, the
\* table save_data inserts into is the table of the SmartPlug entry, and it
\* exists; so a save_data after it has not failed.
C24_InsertTargetIsCreatedTable ==
    ensured =>
       LET e == ConfigOf(schema_config, "SmartPlug")
       IN  /\ SaveTarget(schema_config, "save_data") = << e.file, e.table >>
           /\ SaveTarget(schema_config, "save_data") \in DOMAIN db
           /\ (last_op.op = "save_data"
                 /\ SaveSchemaNames(schema_config, "save_data")
                       \subseteq SeqToSet(Names(db[<< e.file, e.table >>].columns)))
              => last_op.error = ""

\* The type the schema declares for a field.
DeclaredType(schema, n) ==
    schema[CHOOSE j \in 1..Len(schema) : schema[j].name = n].type

\* C25 (as the spec states it): when save_schneider_device_reading has created
\* the table after a failed insert, the table has device_name, timestamp and
\* every field of the schema, each field with the type the schema declares for
\* it, and the insert tried again has succeeded.
C25_FallbackTableFitsInsert ==
    (last_op.op = "save_schneider" /\ last_op.created # {}) =>
       LET e == ConfigOf(schema_config, "schneider")
           t == db[CHOOSE k \in last_op.created : TRUE]
       IN  /\ {"device_name", "timestamp"} \cup SeqToSet(Names(e.schema))
                 \subseteq SeqToSet(Names(t.columns))
           /\ \A n \in SeqToSet(Names(e.schema)) \ {"device_name"} :
                 Col(n, DeclaredType(e.schema, n)) \in ColumnSet(t)
           /\ last_op.error = ""
           /\ t.rows # << >>

(***************************************************************************)
(*     src/services/data_service.py: the SmartPlug read and its save       *)
(***************************************************************************)

\* A lookup that asks the energy usage first.
LookupValue_UsageFirst(device_info, energy_usage, field_name) ==
    IF field_name = "timestamp" THEN ReadStamp
    ELSE IF Get(energy_usage, field_name) # NoValue THEN Get(energy_usage, field_name)
    ELSE Get(device_info, field_name)

\* data_service.py:65-69: getattr(device_info, name, None), then
\* getattr(energy_usage, name, None) when that is None; the current time for
\* the field timestamp.
LookupValue(device_info, energy_usage, field_name) ==
    IF field_name = "timestamp" THEN ReadStamp
    ELSE IF Get(device_info, field_name) # NoValue THEN Get(device_info, field_name)
    ELSE Get(energy_usage, field_name)

\* data_service.py:55-70: the loop over the fields of the SmartPlug schema.
RECURSIVE MapFields(_, _, _, _)
MapFields(fields, device_info, energy_usage, dat) ==
    IF fields = << >> THEN dat
    ELSE LET field == Head(fields)
         IN  IF field.name = Absent \/ field.name = "device_name"
             THEN MapFields(Tail(fields), device_info, energy_usage, dat)
             ELSE MapFields(Tail(fields), device_info, energy_usage,
                      SetItem(dat, field.name,
                              LookupValue(device_info, energy_usage, field.name)))

\* data_service.py:41-71, for the two responses the device gave.
get_tapo_device_data(cfg, device_info, energy_usage, device_name) ==
    MapFields(ConfigOf(cfg, "SmartPlug").schema, device_info, energy_usage,
              IF device_name # NoValue
              THEN SetItem(EmptyDict, "device_name", device_name)
              ELSE EmptyDict)

\* The SmartPlug schemas and device responses the reads are checked with. A
\* response attribute may be there with the value None.
TapoColumnVariants ==
    { << Col("timestamp", "TEXT"), Col("current_power", "REAL") >>,
      << Col("device_name", "TEXT"), Col("timestamp", "TEXT"),
         Col("current_power", "REAL"), Col("today_energy", "REAL") >>,
      << Col("timestamp", "TEXT"), Col("device_on", "TEXT"),
         Col("today_energy", "REAL"), Col("current_power", "REAL"),
         Col("signal_level", "TEXT") >> }
TapoSchemaConfigs ==
    { << DevicesDbEntry,
         Entry("SmartPlug", "tapo_data.db", "tapo_device_metrics", cols),
         Entry("schneider", "schneider_data.db", "schneider_device_metrics",
               << Col("timestamp", "TEXT"), Col("current_power", "REAL") >>) >>
      : cols \in TapoColumnVariants }
DeviceInfos ==
    { EmptyDict,
      [device_on |-> "true"],
      [device_on |-> "true", today_energy |-> "7"],
      [device_on |-> "false", current_power |-> NoValue, timestamp |-> "old"],
      [device_on |-> "true", current_power |-> "40", model |-> "P110"] }
EnergyUsages ==
    { EmptyDict,
      [current_power |-> "42"],
      [current_power |-> "42", today_energy |-> "9", month_energy |-> "300"],
      [today_energy |-> NoValue, month_energy |-> "300"] }

\* main.py:60-63: get_tapo_device_data is run for a SmartPlug and returns
\* within the timeout.
GetTapoDeviceData ==
    /\ mpc = "read"
    /\ mreads < MaxReads
    /\ mreads' = mreads + 1
    /\ \E name \in DeviceNames(device_config),
          device_info \in DeviceInfos, energy_usage \in EnergyUsages :
         /\ DeviceInfo(device_config, name).type = "SmartPlug"
         /\ mdevice' = name
         /\ answers' = [device_info |-> device_info, energy_usage |-> energy_usage]
         /\ reading' = get_tapo_device_data(schema_config, device_info,
                                            energy_usage, name)
    /\ mpc' = "save"
    /\ UNCHANGED <<connected, requests>>
    /\ UNCHANGED <<pollVars, authVars, storeVars>>

\* main.py:64: the reading is handed to save_data.
SaveTapoReading ==
    /\ mpc = "save"
    /\ RowCount(db) < MaxRows
    /\ LET r == save_data(db, schema_config, reading, "tapo_device_metrics")
       IN  /\ db' = r.db
           /\ last_op' = [op |-> "save_data", error |-> r.error, created |-> {},
                          dat |-> reading]
    /\ mpc' = "read"
    /\ UNCHANGED <<schema_config, ensure_streak, ensured, db_config, saving, running>>
    /\ UNCHANGED <<mdevice, connected, answers, requests, reading, mreads>>
    /\ UNCHANGED <<pollVars, authVars>>

TapoDevices == << Plug("plug1"), Plug("plug2") >>

\* The program has started: the tables are those startup leaves.
InitTapo ==
    /\ saving = NoCalls
    /\ running = NoRun
    /\ schema_config \in TapoSchemaConfigs
    /\ db = startup_tables(EmptyDict, schema_config, TapoDevices).db
    /\ last_op = [op |-> "ensure", error |-> "", created |-> DOMAIN db]
    /\ ensure_streak = 1
    /\ ensured = TRUE
    /\ db_config = NoDbConfig
    /\ mpc = "read"
    /\ mdevice = NoValue
    /\ connected = NoValue
    /\ answers = EmptyDict
    /\ requests = << >>
    /\ reading = EmptyDict
    /\ mreads = 0
    /\ PollIdle /\ device_config = TapoDevices
    /\ AuthIdle

NextTapo ==
    \/ GetTapoDeviceData
    \/ SaveTapoReading

SpecTapo == InitTapo /\ [][NextTapo]_vars

\* C21: the dict get_tapo_device_data returns has device_name and one entry
\* for every column of the SmartPlug schema and no other; timestamp is the
\* time of the read; every other column has the device-status value when that
\* response has one, else the energy-usage value, else NULL.
C21_FieldMapperPriority ==
    (mreads > 0 /\ mdevice # NoValue) =>
       LET names == SeqToSet(Names(ConfigOf(schema_config, "SmartPlug").schema))
       IN  /\ DOMAIN reading = names \cup {"device_name"}
           /\ reading["device_name"] = mdevice
           /\ \A n \in names \ {"device_name"} :
                 reading[n] =
                    IF n = "timestamp" THEN ReadStamp
                    ELSE IF Get(answers.device_info, n) # NoValue
                    THEN answers.device_info[n]
                    ELSE IF Get(answers.energy_usage, n) # NoValue
                    THEN answers.energy_usage[n]
                    ELSE NoValue

\* C21's case: both responses have today_energy and the status value was
\* taken; current_power came from the energy usage alone; signal_level is in
\* neither and is NULL; month_energy, no schema column, is not in the record.
C21_Witness ==
    /\ mreads > 0 /\ mdevice # NoValue
    /\ answers.device_info = [device_on |-> "true", today_energy |-> "7"]
    /\ Get(answers.energy_usage, "today_energy") = "9"
    /\ "signal_level" \in DOMAIN reading
    /\ reading["today_energy"] = "7"
    /\ reading["current_power"] = "42"
    /\ reading["signal_level"] = NoValue
    /\ "month_energy" \notin DOMAIN reading

====
